---------------------------- MODULE Spec2Model ----------------------------
(***************************************************************************)
(* mcp-api-colombia: the tool registry and the request dispatcher of the   *)
(* MCP server (createServer), the shared zod schemas, the response and     *)
(* error shaping helpers and the per-domain tool / handler tables.         *)
(*                                                                         *)
(* One request is served per session.  A Call runs the dispatcher and the  *)
(* handler up to the handler's only suspension point, the awaited upstream *)
(* REST call; the upstream settling (resolve or reject) is a second step.  *)
(***************************************************************************)
EXTENDS Integers, Sequences, FiniteSets, TLC

\* ------------------------------------------------------------------------
\* Bounds of the model
\* ------------------------------------------------------------------------

\* Numeric argument values (id, page, pageSize, month) range over -1..MaxNum.
MaxNum == 3

\* ------------------------------------------------------------------------
\* State
\* ------------------------------------------------------------------------

VARIABLES
    rev,      \* the registry revision the server was built from
    pc,       \* per session: "idle", "awaiting" (upstream call), "done",
              \* "closed" (connection gone)
    req,      \* per session: the request being served
    invoked,  \* per session: the handlers the dispatcher has called for it
    calls,    \* per session: the upstream invocations made for it
    settled,  \* per session: how the upstream call settled
    result,   \* per session: what the request handler resolved to
    handled,  \* per session: how the tool handler's own promise settled
    now,      \* the calendar year of the system clock
    proc,     \* the process: start-up inputs, adapter, status, exit code
    memo      \* the first response seen for the observed call (history)

\* The calendar years the clock passes through.
Years == {2026, 2027}

\* `new Date().getFullYear()`, read by the by-year schemas when a call runs.
CurrentYear == now

\* ------------------------------------------------------------------------
\* JavaScript / JSON values
\* ------------------------------------------------------------------------

\* A value is a record of one shape: t is the JS type, n the number, s the
\* string, items the members of an object (k = key) or array (k = "").
\* A number that is not an integer is n plus the decimal fraction s.
JV(t, n, s, items) == [t |-> t, n |-> n, s |-> s, items |-> items]

Undefined == JV("undefined", 0, "", <<>>)

Null == JV("null", 0, "", <<>>)

Num(n) == JV("number", n, "", <<>>)

\* The number n + 0.5, n >= 0.
Half(n) == JV("number", n, ".5", <<>>)

Str(s) == JV("string", 0, s, <<>>)

Obj(items) == JV("object", 0, "", items)

Arr(items) == JV("array", 0, "", items)

Member(k, v) == [k |-> k, v |-> v]

\* String(value) / `${value}` for the primitive values arguments can hold.
JSString(v) ==
    CASE v.t = "undefined" -> "undefined"
      [] v.t = "null" -> "null"
      [] v.t = "number" -> ToString(v.n) \o v.s
      [] v.t = "string" -> v.s
      [] OTHER -> "[object Object]"

RECURSIVE JSONQuoteTail(_)
\* The characters of a JSON string literal, '"' and '\' escaped.
JSONQuoteTail(s) ==
    IF s = "" THEN ""
    ELSE LET c == SubSeq(s, 1, 1)
             e == IF c = "\"" THEN "\\\"" ELSE IF c = "\\" THEN "\\\\" ELSE c
         IN  e \o JSONQuoteTail(SubSeq(s, 2, Len(s)))

JSONQuote(s) == "\"" \o JSONQuoteTail(s) \o "\""

RECURSIVE JSONstringify(_)
RECURSIVE JSONMembers(_, _)
\* The members of an object (asObject) or array, joined with commas.
JSONMembers(items, asObject) ==
    IF items = <<>> THEN ""
    ELSE LET m == Head(items)
             one == IF asObject
                    THEN JSONQuote(m.k) \o ":" \o JSONstringify(m.v)
                    ELSE JSONstringify(m.v)
         IN  IF Len(items) = 1 THEN one
             ELSE one \o "," \o JSONMembers(Tail(items), asObject)

\* JSON.stringify(data) for a JSON value.
JSONstringify(v) ==
    CASE v.t = "null" -> "null"
      [] v.t = "number" -> ToString(v.n) \o v.s
      [] v.t = "string" -> JSONQuote(v.s)
      [] v.t = "array" -> "[" \o JSONMembers(v.items, FALSE) \o "]"
      [] v.t = "object" -> "{" \o JSONMembers(v.items, TRUE) \o "}"
      [] OTHER -> "null"

\* Whether text starts with prefix.
StartsWith(text, prefix) ==
    /\ Len(text) >= Len(prefix)
    /\ SubSeq(text, 1, Len(prefix)) = prefix

\* ------------------------------------------------------------------------
\* zod schemas (src/utils/common/schemas.ts and the inline schemas)
\* ------------------------------------------------------------------------

\* z.number()
zNumber ==
    [type |-> "number", optional |-> FALSE, int |-> FALSE, hasMin |-> FALSE,
     min |-> 0, hasMax |-> FALSE, max |-> 0, enum |-> {}]

\* z.string()
zString ==
    [type |-> "string", optional |-> FALSE, int |-> FALSE, hasMin |-> FALSE,
     min |-> 0, hasMax |-> FALSE, max |-> 0, enum |-> {}]

\* z.enum(values)
zEnum(values) ==
    [type |-> "enum", optional |-> FALSE, int |-> FALSE, hasMin |-> FALSE,
     min |-> 0, hasMax |-> FALSE, max |-> 0, enum |-> values]

\* schema.min(m)
zMin(schema, m) == [schema EXCEPT !.hasMin = TRUE, !.min = m]

\* The upper bound left unchecked.
zMax_unchecked(schema, m) == schema

\* schema.max(m)
zMax(schema, m) == [schema EXCEPT !.hasMax = TRUE, !.max = m]

\* schema.int()
zInt(schema) == [schema EXCEPT !.int = TRUE]

\* schema.optional()
zOptional(schema) == [schema EXCEPT !.optional = TRUE]

\* One entry of a z.object shape.
Field(key, schema) == [key |-> key, schema |-> schema]

\* The issues schema.parse raises for one value at path key.
FieldIssues(key, schema, v) ==
    IF v.t = "undefined"
    THEN IF schema.optional THEN {}
         ELSE {[path |-> key, code |-> "invalid_type"]}
    ELSE CASE schema.type = "number" ->
                IF v.t # "number" THEN {[path |-> key, code |-> "invalid_type"]}
                ELSE (IF schema.int /\ v.s # ""
                      THEN {[path |-> key, code |-> "invalid_type"]} ELSE {})
                     \cup
                     (IF schema.hasMin /\ v.n < schema.min
                      THEN {[path |-> key, code |-> "too_small"]} ELSE {})
                     \cup
                     (IF schema.hasMax
                         /\ (v.n > schema.max \/ (v.n = schema.max /\ v.s # ""))
                      THEN {[path |-> key, code |-> "too_big"]} ELSE {})
           [] schema.type = "string" ->
                IF v.t # "string" THEN {[path |-> key, code |-> "invalid_type"]}
                ELSE {}
           [] schema.type = "enum" ->
                IF v.t = "string" /\ v.s \in schema.enum THEN {}
                ELSE {[path |-> key, code |-> "invalid_enum_value"]}
           [] OTHER -> {}

\* z.object(shape).parse(input): every violated field is reported; keys of
\* the shape that input does not carry are read as undefined.
ZodIssues(shape, input) ==
    UNION {FieldIssues(shape[i].key, shape[i].schema,
                       IF shape[i].key \in DOMAIN input
                       THEN input[shape[i].key] ELSE Undefined) :
               i \in 1..Len(shape)}

commonSchemas_id == zMin(zNumber, 1)

\* The sort direction as free text.
commonSchemas_sortDirection_anyString == zOptional(zString)

commonSchemas_sortDirection == zOptional(zEnum({"asc", "desc"}))

commonSchemas_sortBy == zOptional(zString)

commonRequiredIdSchema == <<Field("id", commonSchemas_id)>>

commonSortSchema ==
    <<Field("sortBy", commonSchemas_sortBy),
      Field("sortDirection", commonSchemas_sortDirection)>>

commonSortSchemaWithRequiredId ==
    <<Field("id", commonSchemas_id),
      Field("sortBy", commonSchemas_sortBy),
      Field("sortDirection", commonSchemas_sortDirection)>>

\* The page schema with the lower bound of pageSize dropped.
commonPageSchemaWithSort_pageSizeUnbounded ==
    <<Field("page", zMin(zNumber, 1)),
      Field("pageSize", zNumber),
      Field("sortBy", commonSchemas_sortBy),
      Field("sortDirection", commonSchemas_sortDirection)>>

commonPageSchemaWithSort ==
    <<Field("page", zMin(zNumber, 1)),
      Field("pageSize", zMin(zNumber, 1)),
      Field("sortBy", commonSchemas_sortBy),
      Field("sortDirection", commonSchemas_sortDirection)>>

\* ------------------------------------------------------------------------
\* Thrown values, responses (src/utils/utils.ts)
\* ------------------------------------------------------------------------

\* A thrown value: isError is `instanceof Error`, class the constructor,
\* message the Error's message, str String(value), details the ZodError's
\* issues or the ToolError's second argument.
Thrown(class, isError, message, str, details) ==
    [class |-> class, isError |-> isError, message |-> message,
     str |-> str, details |-> details]

\* new Error(message)
NewError(message) == Thrown("Error", TRUE, message, "Error: " \o message, {})

\* new TypeError(message)
NewTypeError(message) ==
    Thrown("TypeError", TRUE, message, "TypeError: " \o message, {})

\* A value that is not an Error, thrown or rejected with (a string).
NonError(s) == Thrown("string", FALSE, "", s, {})

\* The ZodError schema.parse throws for a non-empty set of issues.
NewZodError(issues) ==
    Thrown("ZodError", TRUE, "ZodError", "ZodError", issues)

\* new ToolError(message, details): an Error carrying details.
NewToolError(message, details) ==
    Thrown("ToolError", TRUE, message, "ToolError: " \o message, details)

NoResult ==
    [shape |-> "none", content |-> <<>>, isError |-> FALSE, meta |-> FALSE,
     tools |-> <<>>, raw |-> ""]

TextItem(text) == [type |-> "text", text |-> text]

\* The response with text String(data) in place of JSON.stringify(data).
createToolResponse_stringCoerced(data, isError) ==
    [shape |-> "envelope", content |-> <<TextItem(JSString(data))>>,
     isError |-> isError, meta |-> TRUE, tools |-> <<>>, raw |-> ""]

\* createToolResponse(data, isError = false)
createToolResponse(data, isError) ==
    [shape |-> "envelope", content |-> <<TextItem(JSONstringify(data))>>,
     isError |-> isError, meta |-> TRUE, tools |-> <<>>, raw |-> ""]

\* handleToolError joining context and message with a colon only.
handleToolError_colonOnly(error, context) ==
    LET errorMessage == IF error.isError THEN error.message ELSE error.str
    IN  IF error.class = "ZodError"
        THEN NewToolError("Invalid input: " \o context, error.details)
        ELSE NewToolError(context \o ": " \o errorMessage, {})

\* handleToolError(error, context): never returns, the value it throws.
handleToolError(error, context) ==
    LET errorMessage == IF error.isError THEN error.message ELSE error.str
    IN  IF error.class = "ZodError"
        THEN NewToolError("Invalid input: " \o context, error.details)
        ELSE NewToolError(context \o " failed: " \o errorMessage, {})

\* validateToolInput(schema, input, context): the value thrown, if any.
validateToolInput(schema, input, context) ==
    LET issues == ZodIssues(schema, input)
    IN  IF issues = {} THEN [throws |-> FALSE, error |-> NewError("")]
        ELSE [throws |-> TRUE,
              error |-> handleToolError(NewZodError(issues), context)]

\* executeApiCall(apiCall, context) once apiCall() has settled: the payload
\* it returns, or the value handleToolError throws.
executeApiCall(outcome, context) ==
    IF outcome.kind = "resolved"
    THEN [throws |-> FALSE, value |-> outcome.payload, error |-> NewError("")]
    ELSE [throws |-> TRUE, value |-> Undefined,
          error |-> handleToolError(outcome.error, context)]

\* ------------------------------------------------------------------------
\* Tool descriptors and handlers (src/tools/definitions/*.ts)
\* ------------------------------------------------------------------------

\* A Tool: its name and the keys of inputSchema.properties, in order (the
\* declarations put `required` inside `properties`).
Tool(name, properties) == [name |-> name, properties |-> properties]

\* A literal piece of a template string.
L(s) == [lit |-> TRUE, s |-> s]

\* An interpolated variable `${s}` of a template string.
A(s) == [lit |-> FALSE, s |-> s]

\* key: variable, one property of the `path` / `query` object literal.
Param(key, var) == [key |-> key, var |-> var]

\* One handler of a ToolHandlers map: whether it validates, the schema and
\* the keys of the object it validates, the validation context, the
\* upstream operation with its path and query properties, and the
\* executeApiCall context.
Handler(validate, schema, input, valCtx, op, path, query, apiCtx) ==
    [validate |-> validate, schema |-> schema, input |-> input,
     valCtx |-> valCtx, op |-> op, path |-> path, query |-> query,
     apiCtx |-> apiCtx]

\* const getApiV1DepartmentSchema = z.object({ sortBy, sortDirection })
getApiV1DepartmentSchema ==
    <<Field("sortBy", commonSchemas_sortBy),
      Field("sortDirection", commonSchemas_sortDirection)>>

CATEGORY_NATURAL_AREA_TOOLS ==
    <<
      Tool("get-category-natural-areas", <<"sortBy", "sortDirection", "required">>),
      Tool("get-category-natural-area-by-id", <<"id", "required">>),
      Tool("get-category-natural-area-by-id-natural-areas", <<"id", "required">>)
    >>

CATEGORY_NATURAL_AREA_HANDLERS ==
    "get-category-natural-areas" :>
        Handler(TRUE, commonSortSchema, <<"sortBy", "sortDirection">>,
                <<L("Get category natural areas with sortBy: "), A("sortBy"), L(", sortDirection: "), A("sortDirection")>>,
                "getApiV1CategoryNaturalArea", <<>>, <<Param("sortBy", "sortBy"), Param("sortDirection", "sortDirection")>>,
                <<L("Get category natural areas")>>) @@
    "get-category-natural-area-by-id" :>
        Handler(TRUE, commonRequiredIdSchema, <<"id">>,
                <<L("Get category natural area by ID: "), A("id")>>,
                "getApiV1CategoryNaturalAreaById", <<Param("id", "id")>>, <<>>,
                <<L("Get category natural area by ID")>>) @@
    "get-category-natural-area-by-id-natural-areas" :>
        Handler(TRUE, commonRequiredIdSchema, <<"id">>,
                <<L("Get category natural area by ID natural areas: "), A("id")>>,
                "getApiV1CategoryNaturalAreaByIdNaturalAreas", <<Param("id", "id")>>, <<>>,
                <<L("Get category natural area by ID natural areas")>>)

CITY_TOOLS ==
    <<
      Tool("get-cities", <<"sortBy", "sortDirection", "required">>),
      Tool("get-city-by-id", <<"id", "required">>),
      Tool("get-city-by-name", <<"name", "required">>),
      Tool("search-city-by-keyword", <<"keyword", "required">>),
      Tool("get-city-paginated", <<"page", "pageSize", "sortBy", "sortDirection", "required">>)
    >>

CITY_HANDLERS ==
    "get-cities" :>
        Handler(TRUE, commonSortSchema, <<"sortBy", "sortDirection">>,
                <<L("Get cities with sortBy: "), A("sortBy"), L(", sortDirection: "), A("sortDirection")>>,
                "getApiV1City", <<>>, <<Param("sortBy", "sortBy"), Param("sortDirection", "sortDirection")>>,
                <<L("Get cities")>>) @@
    "get-city-by-id" :>
        Handler(TRUE, commonRequiredIdSchema, <<"id">>,
                <<L("Get city by ID: "), A("id")>>,
                "getApiV1CityById", <<Param("id", "id")>>, <<>>,
                <<L("Get city by ID")>>) @@
    "get-city-by-name" :>
        Handler(TRUE, <<Field("name", zString)>>, <<"name">>,
                <<L("Get city by name: "), A("name")>>,
                "getApiV1CityNameByName", <<Param("name", "name")>>, <<>>,
                <<L("Get city by name")>>) @@
    "search-city-by-keyword" :>
        Handler(TRUE, <<Field("keyword", zString)>>, <<"keyword">>,
                <<L("Search city by keyword: "), A("keyword")>>,
                "getApiV1CitySearchByKeyword", <<Param("keyword", "keyword")>>, <<>>,
                <<L("Search city by keyword")>>) @@
    "get-city-paginated" :>
        Handler(TRUE, commonPageSchemaWithSort, <<"page", "pageSize", "sortBy", "sortDirection">>,
                <<L("Get paginated cities with page: "), A("page"), L(", pageSize: "), A("pageSize"), L(", sortBy: "), A("sortBy"), L(", sortDirection: "), A("sortDirection")>>,
                "getApiV1CityPagedList", <<>>, <<Param("Page", "page"), Param("PageSize", "pageSize"), Param("SortBy", "sortBy"), Param("SortDirection", "sortDirection")>>,
                <<L("Get paginated cities")>>)

DEPARTMENT_TOOLS_v1 ==
    <<
      Tool("get-departments", <<"sortBy", "sortDirection", "required">>),
      Tool("get-department-by-id", <<"id", "required">>)
    >>

DEPARTMENT_HANDLERS_v1 ==
    "get-departments" :>
        Handler(TRUE, getApiV1DepartmentSchema, <<"sortBy", "sortDirection">>,
                <<L("Get departments with sortBy: "), A("sortBy"), L(", sortDirection: "), A("sortDirection")>>,
                "getApiV1Department", <<>>, <<Param("sortBy", "sortBy"), Param("sortDirection", "sortDirection")>>,
                <<L("Get departments")>>) @@
    "get-department-by-id" :>
        Handler(TRUE, <<Field("id", zNumber)>>, <<"id">>,
                <<L("Get department by ID: "), A("id")>>,
                "getApiV1DepartmentById", <<Param("id", "id")>>, <<>>,
                <<L("Get department by ID")>>)

INVASIVE_SPECIE_TOOLS ==
    <<
      Tool("get-invasive-species", <<"sortBy", "sortDirection", "required">>),
      Tool("get-invasive-specie-by-id", <<"id", "required">>),
      Tool("get-invasive-specie-by-name", <<"name", "required">>),
      Tool("search-invasive-specie-by-keyword", <<"keyword", "required">>),
      Tool("get-invasive-specie-paginated", <<"page", "pageSize", "sortBy", "sortDirection", "required">>)
    >>

INVASIVE_SPECIE_HANDLERS ==
    "get-invasive-species" :>
        Handler(TRUE, commonSortSchema, <<"sortBy", "sortDirection">>,
                <<L("Get invasive species with sortBy: "), A("sortBy"), L(", sortDirection: "), A("sortDirection")>>,
                "getApiV1InvasiveSpecie", <<>>, <<Param("sortBy", "sortBy"), Param("sortDirection", "sortDirection")>>,
                <<L("Get invasive species")>>) @@
    "get-invasive-specie-by-id" :>
        Handler(TRUE, commonRequiredIdSchema, <<"id">>,
                <<L("Get invasive specie by ID: "), A("id")>>,
                "getApiV1InvasiveSpecieById", <<Param("id", "id")>>, <<>>,
                <<L("Get invasive specie by ID")>>) @@
    "get-invasive-specie-by-name" :>
        Handler(TRUE, <<Field("name", zString)>>, <<"name">>,
                <<L("Get invasive specie by name: "), A("name")>>,
                "getApiV1InvasiveSpecieNameByName", <<Param("name", "name")>>, <<>>,
                <<L("Get invasive specie by name")>>) @@
    "search-invasive-specie-by-keyword" :>
        Handler(TRUE, <<Field("keyword", zString)>>, <<"keyword">>,
                <<L("Search invasive specie by keyword: "), A("keyword")>>,
                "getApiV1InvasiveSpecieSearchByKeyword", <<Param("keyword", "keyword")>>, <<>>,
                <<L("Search invasive species by keyword")>>) @@
    "get-invasive-specie-paginated" :>
        Handler(TRUE, commonPageSchemaWithSort, <<"page", "pageSize", "sortBy", "sortDirection">>,
                <<L("Get paginated invasive species with page: "), A("page"), L(", pageSize: "), A("pageSize"), L(", sortBy: "), A("sortBy"), L(", sortDirection: "), A("sortDirection")>>,
                "getApiV1InvasiveSpeciePagedList", <<>>, <<Param("Page", "page"), Param("PageSize", "pageSize"), Param("SortBy", "sortBy"), Param("SortDirection", "sortDirection")>>,
                <<L("Get paginated invasive species")>>)

MAP_TOOLS ==
    <<
      Tool("get-maps", <<"sortBy", "sortDirection", "required">>),
      Tool("get-map-by-id", <<"id", "required">>)
    >>

MAP_HANDLERS ==
    "get-maps" :>
        Handler(TRUE, commonSortSchema, <<"sortBy", "sortDirection">>,
                <<L("Get maps with sortBy: "), A("sortBy"), L(", sortDirection: "), A("sortDirection")>>,
                "getApiV1Map", <<>>, <<Param("sortBy", "sortBy"), Param("sortDirection", "sortDirection")>>,
                <<L("Get maps")>>) @@
    "get-map-by-id" :>
        Handler(TRUE, commonRequiredIdSchema, <<"id">>,
                <<L("Get map by ID: "), A("id")>>,
                "getApiV1MapById", <<Param("id", "id")>>, <<>>,
                <<L("Get map by ID")>>)

REGION_TOOLS ==
    <<
      Tool("get-regions", <<"sortBy", "sortDirection", "required">>),
      Tool("get-region-by-id", <<"id", "required">>),
      Tool("get-region-by-id-departments", <<"id", "sortBy", "sortDirection", "required">>)
    >>

REGION_HANDLERS ==
    "get-regions" :>
        Handler(TRUE, commonSortSchema, <<"sortBy", "sortDirection">>,
                <<L("Get regions with sortBy: "), A("sortBy"), L(", sortDirection: "), A("sortDirection")>>,
                "getApiV1Region", <<>>, <<Param("sortBy", "sortBy"), Param("sortDirection", "sortDirection")>>,
                <<L("Get regions")>>) @@
    "get-region-by-id" :>
        Handler(TRUE, commonRequiredIdSchema, <<"id">>,
                <<L("Get region by ID: "), A("id")>>,
                "getApiV1RegionById", <<Param("id", "id")>>, <<>>,
                <<L("Get region by ID: "), A("id")>>) @@
    "get-region-by-id-departments" :>
        Handler(TRUE, commonSortSchemaWithRequiredId, <<"id", "sortBy", "sortDirection">>,
                <<L("Get region by ID including departments: "), A("id")>>,
                "getApiV1RegionByIdDepartments", <<Param("id", "id")>>, <<Param("sortBy", "sortBy"), Param("sortDirection", "sortDirection")>>,
                <<L("Get region by ID including departments: "), A("id")>>)

TOURISTIC_ATTRACTION_TOOLS ==
    <<
      Tool("get-touristic-attractions", <<"sortBy", "sortDirection", "required">>),
      Tool("get-touristic-attraction-by-id", <<"id", "required">>),
      Tool("get-touristic-attraction-by-name", <<"name", "required">>),
      Tool("search-touristic-attraction-by-keyword", <<"keyword", "required">>),
      Tool("get-touristic-attraction-paginated", <<"page", "pageSize", "sortBy", "sortDirection", "required">>)
    >>

TOURISTIC_ATTRACTION_HANDLERS ==
    "get-touristic-attractions" :>
        Handler(TRUE, commonSortSchema, <<"sortBy", "sortDirection">>,
                <<L("Get touristic attractions with sortBy: "), A("sortBy"), L(", sortDirection: "), A("sortDirection")>>,
                "getApiV1TouristicAttraction", <<>>, <<Param("sortBy", "sortBy"), Param("sortDirection", "sortDirection")>>,
                <<L("Get touristic attractions")>>) @@
    "get-touristic-attraction-by-id" :>
        Handler(TRUE, commonRequiredIdSchema, <<"id">>,
                <<L("Get touristic attraction by ID: "), A("id")>>,
                "getApiV1TouristicAttractionById", <<Param("id", "id")>>, <<>>,
                <<L("Get touristic attraction by ID: "), A("id")>>) @@
    "get-touristic-attraction-by-name" :>
        Handler(TRUE, <<Field("name", zString)>>, <<"name">>,
                <<L("Get touristic attraction by name: "), A("name")>>,
                "getApiV1TouristicAttractionNameByName", <<Param("name", "name")>>, <<>>,
                <<L("Get touristic attraction by name")>>) @@
    "search-touristic-attraction-by-keyword" :>
        Handler(TRUE, <<Field("keyword", zString)>>, <<"keyword">>,
                <<L("Search touristic attraction by keyword: "), A("keyword")>>,
                "getApiV1TouristicAttractionSearchByKeyword", <<Param("keyword", "keyword")>>, <<>>,
                <<L("Search touristic attraction by keyword")>>) @@
    "get-touristic-attraction-paginated" :>
        Handler(TRUE, commonPageSchemaWithSort, <<"page", "pageSize", "sortBy", "sortDirection">>,
                <<L("Get paginated touristic attractions with page: "), A("page"), L(", pageSize: "), A("pageSize"), L(", sortBy: "), A("sortBy"), L(", sortDirection: "), A("sortDirection")>>,
                "getApiV1TouristicAttractionPagedList", <<>>, <<Param("Page", "page"), Param("PageSize", "pageSize"), Param("SortBy", "sortBy"), Param("SortDirection", "sortDirection")>>,
                <<L("Get paginated touristic attractions")>>)

TRADITIONAL_FAIR_AND_FESTIVAL_TOOLS ==
    <<
      Tool("get-traditional-fairs-and-festivals", <<"sortBy", "sortDirection", "required">>),
      Tool("get-traditional-fair-and-festival-by-id", <<"id", "required">>),
      Tool("get-traditional-fair-and-festival-by-id-city", <<"id", "sortBy", "sortDirection", "required">>),
      Tool("get-traditional-fair-and-festival-by-name", <<"name", "required">>),
      Tool("search-traditional-fair-and-festival-by-keyword", <<"keyword", "required">>),
      Tool("get-traditional-fair-and-festival-paginated", <<"page", "pageSize", "sortBy", "sortDirection", "required">>)
    >>

TRADITIONAL_FAIR_AND_FESTIVAL_HANDLERS ==
    "get-traditional-fairs-and-festivals" :>
        Handler(TRUE, commonSortSchema, <<"sortBy", "sortDirection">>,
                <<L("Get traditional fairs and festivals with sortBy: "), A("sortBy"), L(", sortDirection: "), A("sortDirection")>>,
                "getApiV1TraditionalFairAndFestival", <<>>, <<Param("sortBy", "sortBy"), Param("sortDirection", "sortDirection")>>,
                <<L("Get traditional fairs and festivals")>>) @@
    "get-traditional-fair-and-festival-by-id" :>
        Handler(TRUE, commonRequiredIdSchema, <<"id">>,
                <<L("Get traditional fair and festival by ID: "), A("id")>>,
                "getApiV1TraditionalFairAndFestivalById", <<Param("id", "id")>>, <<>>,
                <<L("Get traditional fair and festival by ID")>>) @@
    "get-traditional-fair-and-festival-by-id-city" :>
        Handler(TRUE, commonSortSchemaWithRequiredId, <<"id", "sortBy", "sortDirection">>,
                <<L("Get a list of traditional fairs and festivals filtered by city ID: "), A("id"), L(" with sortBy: "), A("sortBy"), L(", sortDirection: "), A("sortDirection")>>,
                "getApiV1TraditionalFairAndFestivalByIdCity", <<Param("id", "id")>>, <<Param("sortBy", "sortBy"), Param("sortDirection", "sortDirection")>>,
                <<L("Get traditional fair and festival by city ID")>>) @@
    "get-traditional-fair-and-festival-by-name" :>
        Handler(TRUE, <<Field("name", zString)>>, <<"name">>,
                <<L("Get traditional fair and festival by name: "), A("name")>>,
                "getApiV1TraditionalFairAndFestivalNameByName", <<Param("name", "name")>>, <<>>,
                <<L("Get traditional fair and festival by name")>>) @@
    "search-traditional-fair-and-festival-by-keyword" :>
        Handler(TRUE, <<Field("keyword", zString)>>, <<"keyword">>,
                <<L("Search traditional fair and festival by keyword: "), A("keyword")>>,
                "getApiV1TraditionalFairAndFestivalSearchByKeyword", <<Param("keyword", "keyword")>>, <<>>,
                <<L("Search traditional fair and festival by keyword")>>) @@
    "get-traditional-fair-and-festival-paginated" :>
        Handler(TRUE, commonPageSchemaWithSort, <<"page", "pageSize", "sortBy", "sortDirection">>,
                <<L("Get paginated traditional fairs and festivals with page: "), A("page"), L(", pageSize: "), A("pageSize"), L(", sortBy: "), A("sortBy"), L(", sortDirection: "), A("sortDirection")>>,
                "getApiV1TraditionalFairAndFestivalPagedList", <<>>, <<Param("Page", "page"), Param("PageSize", "pageSize"), Param("SortBy", "sortBy"), Param("SortDirection", "sortDirection")>>,
                <<L("Get paginated traditional fairs and festivals")>>)

TYPICAL_DISH_TOOLS ==
    <<
      Tool("get-typical-dishs", <<"sortBy", "sortDirection", "required">>),
      Tool("get-typical-dish-by-id", <<"id", "required">>),
      Tool("get-typical-dish-by-id-department", <<"id", "sortBy", "sortDirection", "required">>),
      Tool("get-typical-dish-by-name", <<"name", "required">>),
      Tool("search-typical-dish-by-keyword", <<"keyword", "required">>),
      Tool("get-typical-dish-paginated", <<"page", "pageSize", "sortBy", "sortDirection", "required">>)
    >>

TYPICAL_DISH_HANDLERS ==
    "get-typical-dishs" :>
        Handler(TRUE, commonSortSchema, <<"sortBy", "sortDirection">>,
                <<L("Get typical dishes with sortBy: "), A("sortBy"), L(", sortDirection: "), A("sortDirection")>>,
                "getApiV1TypicalDish", <<>>, <<Param("sortBy", "sortBy"), Param("sortDirection", "sortDirection")>>,
                <<L("Get typical dishes")>>) @@
    "get-typical-dish-by-id" :>
        Handler(TRUE, commonRequiredIdSchema, <<"id">>,
                <<L("Get typical dish by ID: "), A("id")>>,
                "getApiV1TypicalDishById", <<Param("id", "id")>>, <<>>,
                <<L("Get typical dish by ID: "), A("id")>>) @@
    "get-typical-dish-by-id-department" :>
        Handler(TRUE, commonSortSchemaWithRequiredId, <<"id", "sortBy", "sortDirection">>,
                <<L("Get typical dish filtered by department ID: "), A("id")>>,
                "getApiV1TypicalDishByIdDepartment", <<Param("id", "id")>>, <<Param("sortBy", "sortBy"), Param("sortDirection", "sortDirection")>>,
                <<L("Get typical dish filtered by department ID: "), A("id")>>) @@
    "get-typical-dish-by-name" :>
        Handler(TRUE, <<Field("name", zString)>>, <<"name">>,
                <<L("Get typical dish by name: "), A("name")>>,
                "getApiV1TypicalDishNameByName", <<Param("name", "name")>>, <<>>,
                <<L("Get typical dish by name")>>) @@
    "search-typical-dish-by-keyword" :>
        Handler(TRUE, <<Field("keyword", zString)>>, <<"keyword">>,
                <<L("Search typical dish by keyword: "), A("keyword")>>,
                "getApiV1TypicalDishSearchByKeyword", <<Param("keyword", "keyword")>>, <<>>,
                <<L("Search typical dish by keyword")>>) @@
    "get-typical-dish-paginated" :>
        Handler(TRUE, commonPageSchemaWithSort, <<"page", "pageSize", "sortBy", "sortDirection">>,
                <<L("Get paginated typical dishes with page: "), A("page"), L(", pageSize: "), A("pageSize"), L(", sortBy: "), A("sortBy"), L(", sortDirection: "), A("sortDirection")>>,
                "getApiV1TypicalDishPagedList", <<>>, <<Param("Page", "page"), Param("PageSize", "pageSize"), Param("SortBy", "sortBy"), Param("SortDirection", "sortDirection")>>,
                <<L("Get paginated typical dishes")>>)

PRESIDENT_TOOLS ==
    <<
      Tool("get-presidents", <<"sortBy", "sortDirection", "required">>),
      Tool("get-president-by-id", <<"id", "required">>),
      Tool("get-president-by-name", <<"name", "required">>),
      Tool("get-president-by-year", <<"year", "required">>),
      Tool("search-president-by-keyword", <<"keyword", "required">>),
      Tool("get-president-paginated", <<"page", "pageSize", "sortBy", "sortDirection", "required">>)
    >>

PRESIDENT_HANDLERS ==
    "get-presidents" :>
        Handler(TRUE, commonSortSchema, <<"sortBy", "sortDirection">>,
                <<L("Get presidents with sortBy: "), A("sortBy"), L(", sortDirection: "), A("sortDirection")>>,
                "getApiV1President", <<>>, <<Param("sortBy", "sortBy"), Param("sortDirection", "sortDirection")>>,
                <<L("Get presidents")>>) @@
    "get-president-by-id" :>
        Handler(TRUE, commonRequiredIdSchema, <<"id">>,
                <<L("Get president by ID: "), A("id")>>,
                "getApiV1PresidentById", <<Param("id", "id")>>, <<>>,
                <<L("Get president by ID: "), A("id")>>) @@
    "get-president-by-name" :>
        Handler(TRUE, <<Field("name", zString)>>, <<"name">>,
                <<L("Get president by name: "), A("name")>>,
                "getApiV1PresidentNameByName", <<Param("name", "name")>>, <<>>,
                <<L("Get president by name: "), A("name")>>) @@
    "get-president-by-year" :>
        Handler(TRUE, <<Field("year", zMax(zMin(zInt(zNumber), 1900), CurrentYear))>>, <<"year">>,
                <<L("Get president by year: "), A("year")>>,
                "getApiV1PresidentYearByYear", <<Param("year", "year")>>, <<>>,
                <<L("Get president by year: "), A("year")>>) @@
    "search-president-by-keyword" :>
        Handler(TRUE, <<Field("keyword", zString)>>, <<"keyword">>,
                <<L("Search president by keyword: "), A("keyword")>>,
                "getApiV1PresidentSearchByKeyword", <<Param("keyword", "keyword")>>, <<>>,
                <<L("Search president by keyword")>>) @@
    "get-president-paginated" :>
        Handler(TRUE, commonPageSchemaWithSort, <<"page", "pageSize", "sortBy", "sortDirection">>,
                <<L("Get paginated departments with page: "), A("page"), L(", pageSize: "), A("pageSize"), L(", sortBy: "), A("sortBy"), L(", sortDirection: "), A("sortDirection")>>,
                "getApiV1PresidentPagedList", <<>>, <<Param("Page", "page"), Param("PageSize", "pageSize"), Param("SortBy", "sortBy"), Param("SortDirection", "sortDirection")>>,
                <<L("Get paginated presidents")>>)

REGION_TOOLS_v1 ==
    <<
      Tool("get-region", <<>>)
    >>

REGION_HANDLERS_v1 ==
    "get-region" :>
        Handler(FALSE, <<>>, <<>>,
                <<>>,
                "getApiV1Region", <<>>, <<>>,
                <<L("Get regions")>>)

COUNTRY_TOOLS ==
    <<
      Tool("get-country-colombia", <<>>)
    >>

COUNTRY_HANDLERS ==
    "get-country-colombia" :>
        Handler(FALSE, <<>>, <<>>,
                <<>>,
                "getApiV1CountryColombia", <<>>, <<>>,
                <<L("Get country colombia data")>>)

AIRPORT_TOOLS ==
    <<
      Tool("get-airports", <<"sortBy", "sortDirection", "required">>),
      Tool("get-airport-by-id", <<"id", "required">>),
      Tool("get-airport-by-name", <<"name", "required">>),
      Tool("search-airport-by-keyword", <<"keyword", "required">>),
      Tool("get-airport-paginated", <<"page", "pageSize", "sortBy", "sortDirection", "required">>)
    >>

AIRPORT_HANDLERS ==
    "get-airports" :>
        Handler(TRUE, commonSortSchema, <<"sortBy", "sortDirection">>,
                <<L("Get airports with sortBy: "), A("sortBy"), L(", sortDirection: "), A("sortDirection")>>,
                "getApiV1Airport", <<>>, <<Param("sortBy", "sortBy"), Param("sortDirection", "sortDirection")>>,
                <<L("Get airports")>>) @@
    "get-airport-by-id" :>
        Handler(TRUE, commonRequiredIdSchema, <<"id">>,
                <<L("Get airport by ID: "), A("id")>>,
                "getApiV1AirportById", <<Param("id", "id")>>, <<>>,
                <<L("Get airport by ID")>>) @@
    "get-airport-by-name" :>
        Handler(TRUE, <<Field("name", zString)>>, <<"name">>,
                <<L("Get airport by name: "), A("name")>>,
                "getApiV1AirportNameByName", <<Param("name", "name")>>, <<>>,
                <<L("Get airport by name")>>) @@
    "search-airport-by-keyword" :>
        Handler(TRUE, <<Field("keyword", zString)>>, <<"keyword">>,
                <<L("Search airport by keyword: "), A("keyword")>>,
                "getApiV1AirportSearchByKeyword", <<Param("keyword", "keyword")>>, <<>>,
                <<L("Search airport by keyword")>>) @@
    "get-airport-paginated" :>
        Handler(TRUE, commonPageSchemaWithSort, <<"page", "pageSize", "sortBy", "sortDirection">>,
                <<L("Get paginated airports with page: "), A("page"), L(", pageSize: "), A("pageSize"), L(", sortBy: "), A("sortBy"), L(", sortDirection: "), A("sortDirection")>>,
                "getApiV1AirportPagedList", <<>>, <<Param("Page", "page"), Param("PageSize", "pageSize"), Param("SortBy", "sortBy"), Param("SortDirection", "sortDirection")>>,
                <<L("Get paginated airports")>>)

INDIGENOUS_RESERVATION_TOOLS ==
    <<
      Tool("get-indigenous-reservations", <<"sortBy", "sortDirection", "required">>),
      Tool("get-indigenous-reservation-by-id", <<"id", "required">>),
      Tool("get-indigenous-reservation-by-name", <<"name", "required">>),
      Tool("search-indigenous-reservation-by-keyword", <<"keyword", "required">>),
      Tool("get-indigenous-reservation-paginated", <<"page", "pageSize", "sortBy", "sortDirection", "required">>)
    >>

INDIGENOUS_RESERVATION_HANDLERS ==
    "get-indigenous-reservations" :>
        Handler(TRUE, commonSortSchema, <<"sortBy", "sortDirection">>,
                <<L("Get indigenous reservations with sortBy: "), A("sortBy"), L(", sortDirection: "), A("sortDirection")>>,
                "getApiV1IndigenousReservation", <<>>, <<Param("sortBy", "sortBy"), Param("sortDirection", "sortDirection")>>,
                <<L("Get indigenous reservations")>>) @@
    "get-indigenous-reservation-by-id" :>
        Handler(TRUE, commonRequiredIdSchema, <<"id">>,
                <<L("Get indigenous reservation by ID: "), A("id")>>,
                "getApiV1IndigenousReservationById", <<Param("id", "id")>>, <<>>,
                <<L("Get indigenous reservation by ID")>>) @@
    "get-indigenous-reservation-by-name" :>
        Handler(TRUE, <<Field("name", zString)>>, <<"name">>,
                <<L("Get indigenous reservation by name: "), A("name")>>,
                "getApiV1IndigenousReservationNameByName", <<Param("name", "name")>>, <<>>,
                <<L("Get indigenous reservation by name")>>) @@
    "search-indigenous-reservation-by-keyword" :>
        Handler(TRUE, <<Field("keyword", zString)>>, <<"keyword">>,
                <<L("Search indigenous reservation by keyword: "), A("keyword")>>,
                "getApiV1IndigenousReservationSearchByKeyword", <<Param("keyword", "keyword")>>, <<>>,
                <<L("Search indigenous reservation by keyword")>>) @@
    "get-indigenous-reservation-paginated" :>
        Handler(TRUE, commonPageSchemaWithSort, <<"page", "pageSize", "sortBy", "sortDirection">>,
                <<L("Get paginated indigenous reservations with page: "), A("page"), L(", pageSize: "), A("pageSize"), L(", sortBy: "), A("sortBy"), L(", sortDirection: "), A("sortDirection")>>,
                "getApiV1IndigenousReservationPagedList", <<>>, <<Param("Page", "page"), Param("PageSize", "pageSize"), Param("SortBy", "sortBy"), Param("SortDirection", "sortDirection")>>,
                <<L("Get paginated indigenous reservations")>>)

CONSTITUTION_ARTICLE_TOOLS ==
    <<
      Tool("get-constitution-articles", <<"sortBy", "sortDirection", "required">>),
      Tool("get-constitution-article-by-id", <<"id", "required">>),
      Tool("search-constitution-article-by-keyword", <<"keyword", "required">>),
      Tool("get-constitution-article-paginated", <<"page", "pageSize", "sortBy", "sortDirection", "required">>),
      Tool("get-constitution-article-by-chapter-number", <<"chapterNumber", "required">>)
    >>

CONSTITUTION_ARTICLE_HANDLERS ==
    "get-constitution-articles" :>
        Handler(TRUE, commonSortSchema, <<"sortBy", "sortDirection">>,
                <<L("Get Constitution Articles with sortBy: "), A("sortBy"), L(", sortDirection: "), A("sortDirection")>>,
                "getApiV1ConstitutionArticle", <<>>, <<Param("sortBy", "sortBy"), Param("sortDirection", "sortDirection")>>,
                <<L("Get Constitution Articles")>>) @@
    "get-constitution-article-by-id" :>
        Handler(TRUE, commonRequiredIdSchema, <<"id">>,
                <<L("Get constitution article by ID: "), A("id")>>,
                "getApiV1ConstitutionArticleById", <<Param("id", "id")>>, <<>>,
                <<L("Get constitution article by ID")>>) @@
    "search-constitution-article-by-keyword" :>
        Handler(TRUE, <<Field("keyword", zString)>>, <<"keyword">>,
                <<L("Search constitution article by keyword: "), A("keyword")>>,
                "getApiV1ConstitutionArticleSearchByKeyword", <<Param("keyword", "keyword")>>, <<>>,
                <<L("Search constitution article by keyword")>>) @@
    "get-constitution-article-paginated" :>
        Handler(TRUE, commonPageSchemaWithSort, <<"page", "pageSize", "sortBy", "sortDirection">>,
                <<L("Get paginated constitution articles with page: "), A("page"), L(", pageSize: "), A("pageSize"), L(", sortBy: "), A("sortBy"), L(", sortDirection: "), A("sortDirection")>>,
                "getApiV1ConstitutionArticlePagedList", <<>>, <<Param("Page", "page"), Param("PageSize", "pageSize"), Param("SortBy", "sortBy"), Param("SortDirection", "sortDirection")>>,
                <<L("Get paginated constitution articles")>>) @@
    "get-constitution-article-by-chapter-number" :>
        Handler(TRUE, commonRequiredIdSchema, <<"chapterNumber">>,
                <<L("Get constitution article by chapter number: "), A("chapterNumber")>>,
                "getApiV1ConstitutionArticleByChapterNumberByChapternumber", <<Param("chapternumber", "chapterNumber")>>, <<>>,
                <<L("Get constitution article by chapter number")>>)

NATURAL_AREA_TOOLS ==
    <<
      Tool("get-natural-areas", <<"sortBy", "sortDirection", "required">>),
      Tool("get-natural-area-by-id", <<"id", "required">>),
      Tool("get-natural-area-by-name", <<"name", "required">>),
      Tool("search-natural-area-by-keyword", <<"keyword", "required">>),
      Tool("get-natural-area-paginated", <<"page", "pageSize", "sortBy", "sortDirection", "required">>)
    >>

NATURAL_AREA_HANDLERS ==
    "get-natural-areas" :>
        Handler(TRUE, commonSortSchema, <<"sortBy", "sortDirection">>,
                <<L("Get natural areas with sortBy: "), A("sortBy"), L(", sortDirection: "), A("sortDirection")>>,
                "getApiV1NaturalArea", <<>>, <<Param("sortBy", "sortBy"), Param("sortDirection", "sortDirection")>>,
                <<L("Get natural areas")>>) @@
    "get-natural-area-by-id" :>
        Handler(TRUE, commonRequiredIdSchema, <<"id">>,
                <<L("Get natural area by ID: "), A("id")>>,
                "getApiV1NaturalAreaById", <<Param("id", "id")>>, <<>>,
                <<L("Get natural area by ID")>>) @@
    "get-natural-area-by-name" :>
        Handler(TRUE, <<Field("name", zString)>>, <<"name">>,
                <<L("Get natural area by name: "), A("name")>>,
                "getApiV1NaturalAreaNameByName", <<Param("name", "name")>>, <<>>,
                <<L("Get natural area by name")>>) @@
    "search-natural-area-by-keyword" :>
        Handler(TRUE, <<Field("keyword", zString)>>, <<"keyword">>,
                <<L("Search department by keyword: "), A("keyword")>>,
                "getApiV1NaturalAreaSearchByKeyword", <<Param("keyword", "keyword")>>, <<>>,
                <<L("Search natural area by keyword")>>) @@
    "get-natural-area-paginated" :>
        Handler(TRUE, commonPageSchemaWithSort, <<"page", "pageSize", "sortBy", "sortDirection">>,
                <<L("Get paginated natural areas with page: "), A("page"), L(", pageSize: "), A("pageSize"), L(", sortBy: "), A("sortBy"), L(", sortDirection: "), A("sortDirection")>>,
                "getApiV1NaturalAreaPagedList", <<>>, <<Param("Page", "page"), Param("PageSize", "pageSize"), Param("SortBy", "sortBy"), Param("SortDirection", "sortDirection")>>,
                <<L("Get paginated natural areas")>>)

DEPARTMENT_TOOLS ==
    <<
      Tool("get-departments", <<"sortBy", "sortDirection", "required">>),
      Tool("get-department-by-id", <<"id", "required">>),
      Tool("get-department-by-id-cities", <<"id", "sortBy", "sortDirection", "required">>),
      Tool("get-department-by-id-natural-areas", <<"id", "sortBy", "sortDirection", "required">>),
      Tool("get-department-by-id-touristic-attractions", <<"id", "sortBy", "sortDirection", "required">>),
      Tool("get-department-by-name", <<"name", "required">>),
      Tool("search-department-by-keyword", <<"keyword", "required">>),
      Tool("get-department-paginated", <<"page", "pageSize", "sortBy", "sortDirection", "required">>)
    >>

DEPARTMENT_HANDLERS ==
    "get-departments" :>
        Handler(TRUE, commonSortSchema, <<"sortBy", "sortDirection">>,
                <<L("Get departments with sortBy: "), A("sortBy"), L(", sortDirection: "), A("sortDirection")>>,
                "getApiV1Department", <<>>, <<Param("sortBy", "sortBy"), Param("sortDirection", "sortDirection")>>,
                <<L("Get departments")>>) @@
    "get-department-by-id" :>
        Handler(TRUE, commonRequiredIdSchema, <<"id">>,
                <<L("Get department by ID: "), A("id")>>,
                "getApiV1DepartmentById", <<Param("id", "id")>>, <<>>,
                <<L("Get department by ID")>>) @@
    "get-department-by-id-cities" :>
        Handler(TRUE, commonSortSchemaWithRequiredId, <<"id", "sortBy", "sortDirection">>,
                <<L("Get a list of cities filtered by department ID: "), A("id"), L(" with sortBy: "), A("sortBy"), L(", sortDirection: "), A("sortDirection")>>,
                "getApiV1DepartmentByIdCities", <<Param("id", "id")>>, <<Param("sortBy", "sortBy"), Param("sortDirection", "sortDirection")>>,
                <<L("Get a list of cities filtered by department ID: "), A("id"), L(" with sortBy: "), A("sortBy"), L(", sortDirection: "), A("sortDirection")>>) @@
    "get-department-by-id-natural-areas" :>
        Handler(TRUE, commonSortSchemaWithRequiredId, <<"id", "sortBy", "sortDirection">>,
                <<L("Get a list of natural areas filtered by department ID: "), A("id"), L(" with sortBy: "), A("sortBy"), L(", sortDirection: "), A("sortDirection")>>,
                "getApiV1DepartmentByIdNaturalareas", <<Param("id", "id")>>, <<Param("sortBy", "sortBy"), Param("sortDirection", "sortDirection")>>,
                <<L("Get a list of natural areas filtered by department ID: "), A("id"), L(" with sortBy: "), A("sortBy"), L(", sortDirection: "), A("sortDirection")>>) @@
    "get-department-by-id-touristic-attractions" :>
        Handler(TRUE, commonSortSchemaWithRequiredId, <<"id", "sortBy", "sortDirection">>,
                <<L("Get a list of touristic attractions filtered by department ID: "), A("id"), L(" with sortBy: "), A("sortBy"), L(", sortDirection: "), A("sortDirection")>>,
                "getApiV1DepartmentByIdTouristicattractions", <<Param("id", "id")>>, <<Param("sortBy", "sortBy"), Param("sortDirection", "sortDirection")>>,
                <<L("Get a list of touristic attractions filtered by department ID: "), A("id"), L(" with sortBy: "), A("sortBy"), L(", sortDirection: "), A("sortDirection")>>) @@
    "get-department-by-name" :>
        Handler(TRUE, <<Field("name", zString)>>, <<"name">>,
                <<L("Get department by name: "), A("name")>>,
                "getApiV1DepartmentNameByName", <<Param("name", "name")>>, <<>>,
                <<L("Get department by name: "), A("name")>>) @@
    "search-department-by-keyword" :>
        Handler(TRUE, <<Field("keyword", zString)>>, <<"keyword">>,
                <<L("Search department by keyword: "), A("keyword")>>,
                "getApiV1DepartmentSearchByKeyword", <<Param("keyword", "keyword")>>, <<>>,
                <<L("Search department by keyword: "), A("keyword")>>) @@
    "get-department-paginated" :>
        Handler(TRUE, commonPageSchemaWithSort, <<"page", "pageSize", "sortBy", "sortDirection">>,
                <<L("Get paginated departments with page: "), A("page"), L(", pageSize: "), A("pageSize"), L(", sortBy: "), A("sortBy"), L(", sortDirection: "), A("sortDirection")>>,
                "getApiV1DepartmentPagedList", <<>>, <<Param("Page", "page"), Param("PageSize", "pageSize"), Param("SortBy", "sortBy"), Param("SortDirection", "sortDirection")>>,
                <<L("Get paginated departments with page: "), A("page"), L(", pageSize: "), A("pageSize"), L(", sortBy: "), A("sortBy"), L(", sortDirection: "), A("sortDirection")>>)

NATIVE_COMMUNITY_TOOLS ==
    <<
      Tool("get-native-communities", <<"sortBy", "sortDirection", "required">>),
      Tool("get-native-community-by-id", <<"id", "required">>),
      Tool("get-native-community-by-name", <<"name", "required">>),
      Tool("search-native-community-by-keyword", <<"keyword", "required">>),
      Tool("get-native-community-paginated", <<"page", "pageSize", "sortBy", "sortDirection", "required">>)
    >>

NATIVE_COMMUNITY_HANDLERS ==
    "get-native-communities" :>
        Handler(TRUE, commonSortSchema, <<"sortBy", "sortDirection">>,
                <<L("Get native communities with sortBy: "), A("sortBy"), L(", sortDirection: "), A("sortDirection")>>,
                "getApiV1NativeCommunity", <<>>, <<Param("sortBy", "sortBy"), Param("sortDirection", "sortDirection")>>,
                <<L("Get native communities")>>) @@
    "get-native-community-by-id" :>
        Handler(TRUE, commonRequiredIdSchema, <<"id">>,
                <<L("Get native community by ID: "), A("id")>>,
                "getApiV1NativeCommunityById", <<Param("id", "id")>>, <<>>,
                <<L("Get native community by ID")>>) @@
    "get-native-community-by-name" :>
        Handler(TRUE, <<Field("name", zString)>>, <<"name">>,
                <<L("Get native community by name: "), A("name")>>,
                "getApiV1NativeCommunityNameByName", <<Param("name", "name")>>, <<>>,
                <<L("Get native community by name")>>) @@
    "search-native-community-by-keyword" :>
        Handler(TRUE, <<Field("keyword", zString)>>, <<"keyword">>,
                <<L("Search native community by keyword: "), A("keyword")>>,
                "getApiV1NativeCommunitySearchByKeyword", <<Param("keyword", "keyword")>>, <<>>,
                <<L("Search native community by keyword")>>) @@
    "get-native-community-paginated" :>
        Handler(TRUE, commonPageSchemaWithSort, <<"page", "pageSize", "sortBy", "sortDirection">>,
                <<L("Get paginated native communities with page: "), A("page"), L(", pageSize: "), A("pageSize"), L(", sortBy: "), A("sortBy"), L(", sortDirection: "), A("sortDirection")>>,
                "getApiV1NativeCommunityPagedList", <<>>, <<Param("Page", "page"), Param("PageSize", "pageSize"), Param("SortBy", "sortBy"), Param("SortDirection", "sortDirection")>>,
                <<L("Get paginated native communities")>>)

HOLIDAY_TOOLS ==
    <<
      Tool("get-holiday-by-year", <<"year", "required">>),
      Tool("get-holiday-by-year-and-month", <<"year", "month", "required">>)
    >>

HOLIDAY_HANDLERS ==
    "get-holiday-by-year" :>
        Handler(TRUE, <<Field("year", zMax(zMin(zInt(zNumber), 1819), CurrentYear))>>, <<"year">>,
                <<L("Get holiday by year: "), A("year")>>,
                "getApiV1HolidayYearByYear", <<Param("year", "year")>>, <<>>,
                <<L("Get holiday by year: "), A("year")>>) @@
    "get-holiday-by-year-and-month" :>
        Handler(TRUE, <<Field("year", zMax(zMin(zInt(zNumber), 1819), CurrentYear)), Field("month", zMax(zMin(zInt(zNumber), 1), 12))>>, <<"year", "month">>,
                <<L("Get holiday by year and month: "), A("year"), L("-"), A("month")>>,
                "getApiV1HolidayYearByYearMonthByMonth", <<Param("year", "year"), Param("month", "month")>>, <<>>,
                <<L("Get holiday by year and month: "), A("year"), L("-"), A("month")>>)

RADIO_TOOLS ==
    <<
      Tool("get-radios", <<"sortBy", "sortDirection", "required">>),
      Tool("get-radio-by-id", <<"id", "required">>),
      Tool("get-radio-by-name", <<"name", "required">>),
      Tool("search-radio-by-keyword", <<"keyword", "required">>),
      Tool("get-radio-paginated", <<"page", "pageSize", "sortBy", "sortDirection", "required">>)
    >>

RADIO_HANDLERS ==
    "get-radios" :>
        Handler(TRUE, commonSortSchema, <<"sortBy", "sortDirection">>,
                <<L("Get radios with sortBy: "), A("sortBy"), L(", sortDirection: "), A("sortDirection")>>,
                "getApiV1Radio", <<>>, <<Param("sortBy", "sortBy"), Param("sortDirection", "sortDirection")>>,
                <<L("Get radios")>>) @@
    "get-radio-by-id" :>
        Handler(TRUE, commonRequiredIdSchema, <<"id">>,
                <<L("Get radio by ID: "), A("id")>>,
                "getApiV1RadioById", <<Param("id", "id")>>, <<>>,
                <<L("Get radio by ID")>>) @@
    "get-radio-by-name" :>
        Handler(TRUE, <<Field("name", zString)>>, <<"name">>,
                <<L("Get radio by name: "), A("name")>>,
                "getApiV1RadioNameByName", <<Param("name", "name")>>, <<>>,
                <<L("Get radio by name")>>) @@
    "search-radio-by-keyword" :>
        Handler(TRUE, <<Field("keyword", zString)>>, <<"keyword">>,
                <<L("Search radio by keyword: "), A("keyword")>>,
                "getApiV1RadioSearchByKeyword", <<Param("keyword", "keyword")>>, <<>>,
                <<L("Search radio by keyword")>>) @@
    "get-radio-paginated" :>
        Handler(TRUE, commonPageSchemaWithSort, <<"page", "pageSize", "sortBy", "sortDirection">>,
                <<L("Get paginated radios with page: "), A("page"), L(", pageSize: "), A("pageSize"), L(", sortBy: "), A("sortBy"), L(", sortDirection: "), A("sortDirection")>>,
                "getApiV1RadioPagedList", <<>>, <<Param("Page", "page"), Param("PageSize", "pageSize"), Param("SortBy", "sortBy"), Param("SortDirection", "sortDirection")>>,
                <<L("Get paginated radios")>>)

\* ------------------------------------------------------------------------
\* Running a handler
\* ------------------------------------------------------------------------

\* The argument names a request can carry.
ArgFields ==
    {"id", "page", "pageSize", "sortBy", "sortDirection", "name", "keyword",
     "year", "month", "chapterNumber"}

\* extractArguments<T>(request): the request's arguments; a field the
\* request does not carry destructures to undefined.
extractArguments(request) == request.arguments

RECURSIVE Render(_, _)
\* A template string evaluated with the destructured variables.
Render(template, vars) ==
    IF template = <<>> THEN ""
    ELSE LET p == Head(template)
         IN  (IF p.lit THEN p.s ELSE JSString(vars[p.s]))
             \o Render(Tail(template), vars)

\* The object literal { k1: v1, ... } of a path / query argument.
ObjectLiteral(params, vars) ==
    [k \in {params[i].key : i \in 1..Len(params)} |->
        vars[(CHOOSE p \in {params[i] : i \in 1..Len(params)} : p.key = k).var]]

\* The upstream invocation with the query keyed by the incoming argument
\* names instead of the property names of the literal.
UpstreamCall_incomingKeys(h, vars) ==
    [op |-> h.op, path |-> ObjectLiteral(h.path, vars),
     query |-> [k \in {h.query[i].var : i \in 1..Len(h.query)} |-> vars[k]]]

\* The upstream invocation a handler makes: operation, path and query.
UpstreamCall(h, vars) ==
    [op |-> h.op, path |-> ObjectLiteral(h.path, vars),
     query |-> ObjectLiteral(h.query, vars)]

\* The handler starting the upstream call before it validates.
HandlerStart_callsBeforeValidating(h, request) ==
    LET vars == extractArguments(request)
        input == [k \in {h.input[i] : i \in 1..Len(h.input)} |-> vars[k]]
        v == IF h.validate
             THEN validateToolInput(h.schema, input, Render(h.valCtx, vars))
             ELSE [throws |-> FALSE, error |-> NewError("")]
    IN  IF v.throws
        THEN [kind |-> "throw", error |-> v.error,
              calls |-> <<UpstreamCall(h, vars)>>]
        ELSE [kind |-> "await", error |-> v.error,
              calls |-> <<UpstreamCall(h, vars)>>]

\* A handler from its entry to its await: it throws (validation) or it has
\* invoked the upstream operation and is suspended on it.
HandlerStart(h, request) ==
    LET vars == extractArguments(request)
        input == [k \in {h.input[i] : i \in 1..Len(h.input)} |-> vars[k]]
        v == IF h.validate
             THEN validateToolInput(h.schema, input, Render(h.valCtx, vars))
             ELSE [throws |-> FALSE, error |-> NewError("")]
    IN  IF v.throws
        THEN [kind |-> "throw", error |-> v.error, calls |-> <<>>]
        ELSE [kind |-> "await", error |-> v.error,
              calls |-> <<UpstreamCall(h, vars)>>]

\* The handler catching the upstream failure itself and returning an
\* error-flagged response built from the error's message.
HandlerResume_caughtLocally(h, request, outcome) ==
    LET r == executeApiCall(outcome, Render(h.apiCtx, extractArguments(request)))
    IN  [kind |-> "return", error |-> r.error,
         result |-> IF r.throws
                    THEN createToolResponse(Str(r.error.message), TRUE)
                    ELSE createToolResponse(r.value, FALSE)]

\* A handler from the settled upstream call to its end: it returns
\* createToolResponse(payload) or throws what executeApiCall throws.
HandlerResume(h, request, outcome) ==
    LET r == executeApiCall(outcome, Render(h.apiCtx, extractArguments(request)))
    IN  IF r.throws
        THEN [kind |-> "throw", error |-> r.error, result |-> NoResult]
        ELSE [kind |-> "return", error |-> r.error,
              result |-> createToolResponse(r.value, FALSE)]

\* ------------------------------------------------------------------------
\* createServer: registry and dispatcher (src/create-server.ts)
\* ------------------------------------------------------------------------

\* The revisions of the registry in the sources: "r1" is the first
\* create-server.ts (the region group alone), "r2" and "r3" the nine-group
\* create-server.ts with the first and the current department module.
Revisions == {"r1", "r2", "r3"}

\* { ...a, ...b }: b's keys override a's.
Spread(a, b) == b @@ a

DEPARTMENT_TOOLS_of(r) == IF r = "r2" THEN DEPARTMENT_TOOLS_v1 ELSE DEPARTMENT_TOOLS

DEPARTMENT_HANDLERS_of(r) ==
    IF r = "r2" THEN DEPARTMENT_HANDLERS_v1 ELSE DEPARTMENT_HANDLERS

\* The merged list with the region group spread a second time.
ALL_TOOLS_regionTwice(r) ==
    IF r = "r1" THEN REGION_TOOLS_v1 \o REGION_TOOLS_v1
    ELSE COUNTRY_TOOLS \o REGION_TOOLS \o DEPARTMENT_TOOLS_of(r) \o CITY_TOOLS
         \o PRESIDENT_TOOLS \o TOURISTIC_ATTRACTION_TOOLS
         \o CATEGORY_NATURAL_AREA_TOOLS \o NATURAL_AREA_TOOLS \o MAP_TOOLS
         \o REGION_TOOLS

\* The merged list sorted by group name rather than in registration order.
ALL_TOOLS_groupsSorted(r) ==
    IF r = "r1" THEN REGION_TOOLS_v1
    ELSE CATEGORY_NATURAL_AREA_TOOLS \o CITY_TOOLS \o COUNTRY_TOOLS
         \o DEPARTMENT_TOOLS_of(r) \o MAP_TOOLS \o NATURAL_AREA_TOOLS
         \o PRESIDENT_TOOLS \o REGION_TOOLS \o TOURISTIC_ATTRACTION_TOOLS

\* const ALL_TOOLS = [...COUNTRY_TOOLS, ..., ...MAP_TOOLS]
ALL_TOOLS(r) ==
    IF r = "r1" THEN REGION_TOOLS_v1
    ELSE COUNTRY_TOOLS \o REGION_TOOLS \o DEPARTMENT_TOOLS_of(r) \o CITY_TOOLS
         \o PRESIDENT_TOOLS \o TOURISTIC_ATTRACTION_TOOLS
         \o CATEGORY_NATURAL_AREA_TOOLS \o NATURAL_AREA_TOOLS \o MAP_TOOLS

\* The merged map with the map group's handlers left out.
ALL_HANDLERS_withoutMap(r) ==
    IF r = "r1" THEN Spread(<<>>, REGION_HANDLERS_v1)
    ELSE Spread(Spread(Spread(Spread(Spread(Spread(Spread(Spread(<<>>,
            COUNTRY_HANDLERS), REGION_HANDLERS), DEPARTMENT_HANDLERS_of(r)),
            CITY_HANDLERS), PRESIDENT_HANDLERS), TOURISTIC_ATTRACTION_HANDLERS),
            CATEGORY_NATURAL_AREA_HANDLERS), NATURAL_AREA_HANDLERS)

\* const ALL_HANDLERS = { ...COUNTRY_HANDLERS, ..., ...MAP_HANDLERS }
ALL_HANDLERS(r) ==
    IF r = "r1" THEN Spread(<<>>, REGION_HANDLERS_v1)
    ELSE Spread(Spread(Spread(Spread(Spread(Spread(Spread(Spread(Spread(<<>>,
            COUNTRY_HANDLERS), REGION_HANDLERS), DEPARTMENT_HANDLERS_of(r)),
            CITY_HANDLERS), PRESIDENT_HANDLERS), TOURISTIC_ATTRACTION_HANDLERS),
            CATEGORY_NATURAL_AREA_HANDLERS), NATURAL_AREA_HANDLERS), MAP_HANDLERS)

\* Properties every object literal inherits from Object.prototype: what
\* calling one as handler(request) does (strict mode, `this` undefined).
ObjectPrototype ==
    "toString" :> [kind |-> "returnsString", text |-> "[object Undefined]"] @@
    "constructor" :> [kind |-> "returnsRequest", text |-> ""] @@
    "hasOwnProperty" :>
        [kind |-> "throws", text |-> "Cannot convert undefined or null to object"] @@
    "valueOf" :>
        [kind |-> "throws", text |-> "Cannot convert undefined or null to object"] @@
    "__proto__" :> [kind |-> "throws", text |-> "handler is not a function"]

\* ALL_HANDLERS[toolName]: an own key, else an inherited property, else
\* undefined.
Lookup(handlers, toolName) ==
    IF toolName \in DOMAIN handlers THEN "own"
    ELSE IF toolName \in DOMAIN ObjectPrototype THEN "inherited"
    ELSE "undefined"

\* The catch block stamping the error text with the current year.
CatchResponse_timestamped(error) ==
    [shape |-> "envelope",
     content |-> <<TextItem("Error (" \o ToString(now) \o "): " \o
                     (IF error.isError THEN error.message ELSE error.str))>>,
     isError |-> TRUE, meta |-> FALSE, tools |-> <<>>, raw |-> ""]

\* The catch block of the Call handler: the error response it returns.
CatchResponse(error) ==
    [shape |-> "envelope",
     content |-> <<TextItem("Error: " \o
                     (IF error.isError THEN error.message ELSE error.str))>>,
     isError |-> TRUE, meta |-> FALSE, tools |-> <<>>, raw |-> ""]

\* The ListTools handler: { tools: ALL_TOOLS }.
ListToolsResponse(r) ==
    [shape |-> "tools", content |-> <<>>, isError |-> FALSE, meta |-> FALSE,
     tools |-> ALL_TOOLS(r), raw |-> ""]

\* The Call handler from its entry to the first await or to its return:
\* what it has invoked and either the response or the suspension.
CallToolStart(r, request) ==
    LET toolName == request.name
        found == Lookup(ALL_HANDLERS(r), toolName)
    IN  CASE found = "undefined" ->
               [pc |-> "done", invoked |-> <<>>, calls |-> <<>>,
                result |-> CatchResponse(NewError("Unknown tool: " \o toolName))]
          [] found = "inherited" ->
               LET m == ObjectPrototype[toolName]
               IN  [pc |-> "done", invoked |-> <<toolName>>, calls |-> <<>>,
                    result |->
                      CASE m.kind = "returnsString" ->
                             [NoResult EXCEPT !.shape = "string", !.raw = m.text]
                        [] m.kind = "returnsRequest" ->
                             [NoResult EXCEPT !.shape = "request"]
                        [] OTHER -> CatchResponse(NewTypeError(m.text))]
          [] OTHER ->
               LET h == HandlerStart(ALL_HANDLERS(r)[toolName], request)
               IN  IF h.kind = "throw"
                   THEN [pc |-> "done", invoked |-> <<toolName>>,
                         calls |-> h.calls, result |-> CatchResponse(h.error)]
                   ELSE [pc |-> "awaiting", invoked |-> <<toolName>>,
                         calls |-> h.calls, result |-> NoResult]

\* The Call handler wrapping the handler's response in a new envelope
\* without the handler's _meta.
CallToolResume_rewraps(r, request, outcome) ==
    LET h == HandlerResume(ALL_HANDLERS(r)[request.name], request, outcome)
    IN  IF h.kind = "throw" THEN CatchResponse(h.error)
        ELSE [h.result EXCEPT !.meta = FALSE]

\* The Call handler resumed by the settled upstream call: its response.
CallToolResume(r, request, outcome) ==
    LET h == HandlerResume(ALL_HANDLERS(r)[request.name], request, outcome)
    IN  IF h.kind = "throw" THEN CatchResponse(h.error) ELSE h.result

\* ------------------------------------------------------------------------
\* Inputs
\* ------------------------------------------------------------------------

NoArgs == [f \in ArgFields |-> Undefined]

Nums == {Num(n) : n \in -1..MaxNum}

\* (sortBy, sortDirection) pairs: absent, valid, and invalid ones.
SortVals ==
    {<<Undefined, Undefined>>, <<Str("name"), Str("asc")>>,
     <<Undefined, Str("desc")>>, <<Str("name"), Str("up")>>,
     <<Num(1), Undefined>>}

WithSort(args, sort) ==
    [args EXCEPT !["sortBy"] = sort[1], !["sortDirection"] = sort[2]]

IdArgs ==
    {WithSort([NoArgs EXCEPT !["id"] = i], sort) :
        i \in Nums \cup {Undefined, Str("3"), Half(1)}, sort \in SortVals}

PageArgs ==
    {WithSort([NoArgs EXCEPT !["page"] = p, !["pageSize"] = ps], sort) :
        p \in Nums \cup {Undefined}, ps \in Nums \cup {Undefined, Str("10")},
        sort \in {<<Undefined, Undefined>>, <<Str("name"), Str("desc")>>,
                  <<Undefined, Str("up")>>}}

TextArgs ==
    {[NoArgs EXCEPT ![f] = v] :
        f \in {"name", "keyword"}, v \in {Str("Bogota"), Str(""), Num(1)}}

YearArgs ==
    {[NoArgs EXCEPT !["year"] = y] :
        y \in {Num(1818), Num(1819), Num(1899), Num(1900), Str("2000"),
               Half(2000)}
              \cup {Num(y) : y \in Years}}

YearMonthArgs ==
    {[NoArgs EXCEPT !["year"] = y, !["month"] = m] :
        y \in {Num(1818), Num(2026)},
        m \in {Num(0), Num(1), Num(12), Num(13), Half(1)}}

ChapterArgs ==
    {[NoArgs EXCEPT !["chapterNumber"] = c] : c \in {Num(0), Num(2)}}

ArgSamples ==
    IdArgs \cup PageArgs \cup TextArgs \cup YearArgs \cup YearMonthArgs
    \cup ChapterArgs

ToolNames(tools) == {tools[i].name : i \in 1..Len(tools)}

\* Tool names a client may send: every name registered in some revision,
\* names no revision registers, and names Object.prototype defines.
CallNames ==
    UNION {ToolNames(ALL_TOOLS(r)) : r \in Revisions}
    \cup {"nonexistent-tool", "", "get-airports"}
    \cup DOMAIN ObjectPrototype

\* Decoded JSON payloads the upstream operation may resolve with.
Payloads ==
    {Obj(<<Member("id", Num(3)), Member("name", Str("Andina"))>>),
     Arr(<<Member("", Obj(<<Member("name", Str("say \"hi\""))>>)),
           Member("", Null)>>),
     Str("ok"), Num(-7)}

\* Values the upstream operation may reject with.
Rejections == {NewError("Not Found"), NewError(""), NonError("timeout")}

Resolved(p) == [kind |-> "resolved", payload |-> p, error |-> NewError("")]

Rejected(e) == [kind |-> "rejected", payload |-> Undefined, error |-> e]

Unsettled == [kind |-> "none", payload |-> Undefined, error |-> NewError("")]

NoRequest == [method |-> "none", name |-> "", arguments |-> NoArgs]

\* ------------------------------------------------------------------------
\* State
\* ------------------------------------------------------------------------

Sessions == {"s1"}

\* ------------------------------------------------------------------------
\* Start-up (index.ts: main)
\* ------------------------------------------------------------------------

\* Values of process.env.MCP_TRANSPORT: unset, empty, and set.
EnvValues == {Undefined, Str(""), Str("sse"), Str("stdio"), Str("http")}

\* Command lines (process.argv past the script name).
Argvs == {<<>>, <<"--stdio">>, <<"--verbose">>, <<"--verbose", "--stdio">>}

\* array.includes(x)
Includes(array, x) == \E i \in 1..Len(array) : array[i] = x

\* A value is truthy: the left operand of || is taken.
Truthy(v) ==
    CASE v.t = "undefined" -> FALSE
      [] v.t = "null" -> FALSE
      [] v.t = "string" -> v.s # ""
      [] v.t = "number" -> v.n # 0 \/ v.s # ""
      [] OTHER -> TRUE

\* The transport chosen from the command line alone.
TransportType_flagOnly(env, argv) ==
    IF Includes(argv, "--stdio") THEN "stdio" ELSE "sse"

\* process.env.MCP_TRANSPORT || (process.argv.includes('--stdio') ? 'stdio' : 'sse')
TransportType(env, argv) ==
    IF Truthy(env) THEN env.s
    ELSE IF Includes(argv, "--stdio") THEN "stdio" ELSE "sse"

\* The pipe adapter only for the value 'stdio', the HTTP adapter otherwise.
Adapter_httpByDefault(transportType) ==
    IF transportType = "stdio" THEN "MCPStdioServer" ELSE "MCPStreamableHttpServer"

\* transportType === 'sse' ? new MCPStreamableHttpServer(server)
\*                         : new MCPStdioServer(server)
Adapter(transportType) ==
    IF transportType = "sse" THEN "MCPStreamableHttpServer" ELSE "MCPStdioServer"

\* The process before main() has run.
Starting(env, argv) ==
    [status |-> "starting", code |-> 0, env |-> env, argv |-> argv,
     transportType |-> "", adapters |-> <<>>, servers |-> 0]

\* The process once main() has returned: one server instance (createServer
\* is called once) and the adapters started on it.
Started(env, argv) ==
    [status |-> "serving", code |-> 0, env |-> env, argv |-> argv,
     transportType |-> TransportType(env, argv),
     adapters |-> <<Adapter(TransportType(env, argv))>>, servers |-> 1]

\* The sessions an adapter serves: the pipe is one session for the life of
\* the process, the HTTP adapter has one session per client connection.
HttpSessions == {"s1", "s2"}

SessionsOf(adapter) ==
    IF adapter = "MCPStreamableHttpServer" THEN HttpSessions ELSE Sessions

\* ------------------------------------------------------------------------
\* History: the observed call
\* ------------------------------------------------------------------------

\* Nothing is observed.
NoMemo ==
    [probe |-> NoRequest, stub |-> Unsettled, recorded |-> FALSE, year |-> 0,
     result |-> NoResult, failedBefore |-> FALSE, failedSince |-> FALSE,
     overlapped |-> {}]

\* A call is an instance of the observed one: the same name and arguments,
\* answered by the stub's outcome when the upstream operation was invoked.
Observed(request, outcome) ==
    /\ request = memo.probe
    /\ outcome \in {Unsettled, memo.stub}

\* A response that reports a failed call.
IsFailure(response) == response.shape = "envelope" /\ response.isError

\* The history after a call of `request` has been answered with `response`:
\* the first answer to the observed call is kept, and whether a failed call
\* was answered before it, and after it.
Remember(request, outcome, response) ==
    IF memo.probe = NoRequest THEN memo
    ELSE IF ~memo.recorded
    THEN IF Observed(request, outcome)
         THEN [memo EXCEPT !.recorded = TRUE, !.year = now, !.result = response]
         ELSE IF IsFailure(response) THEN [memo EXCEPT !.failedBefore = TRUE]
         ELSE memo
    ELSE IF IsFailure(response) THEN [memo EXCEPT !.failedSince = TRUE]
         ELSE memo

\* The history after the call of session s has suspended on its upstream
\* call: s and the sessions suspended at that moment overlap.
Overlap(s) ==
    LET others == {t \in DOMAIN pc \ {s} : pc[t] = "awaiting"}
    IN  IF others = {} THEN memo
        ELSE [memo EXCEPT !.overlapped = @ \cup others \cup {s}]

\* The history after the request of session s is over.
Forget(s) == [memo EXCEPT !.overlapped = @ \ {s}]

\* ------------------------------------------------------------------------
\* The handler's own promise
\* ------------------------------------------------------------------------

NotInvoked == [kind |-> "none", error |-> NewError("")]

\* How handler(request) stands when the Call handler first suspends or
\* returns: rejected (validation), or pending on the upstream call.
HandledAtStart(r, request) ==
    IF Lookup(ALL_HANDLERS(r), request.name) # "own" THEN NotInvoked
    ELSE LET h == HandlerStart(ALL_HANDLERS(r)[request.name], request)
         IN  IF h.kind = "throw" THEN [kind |-> "throw", error |-> h.error]
             ELSE [kind |-> "pending", error |-> NewError("")]

\* How handler(request) settles once the upstream call has settled.
HandledAtResume(r, request, outcome) ==
    LET h == HandlerResume(ALL_HANDLERS(r)[request.name], request, outcome)
    IN  [kind |-> h.kind, error |-> h.error]

\* ------------------------------------------------------------------------
\* Initial states and actions
\* ------------------------------------------------------------------------

vars == <<rev, pc, req, invoked, calls, settled, result, handled, now, proc, memo>>

\* The sessions of the running process.
Live == DOMAIN pc

Serving == proc.status = "serving"

\* The server built and connected, no request received yet.
Ready(sessions) ==
    /\ pc = [s \in sessions |-> "idle"]
    /\ req = [s \in sessions |-> NoRequest]
    /\ invoked = [s \in sessions |-> <<>>]
    /\ calls = [s \in sessions |-> <<>>]
    /\ settled = [s \in sessions |-> Unsettled]
    /\ result = [s \in sessions |-> NoResult]
    /\ handled = [s \in sessions |-> NotInvoked]

\* The pipe adapter serving its one session.
Init ==
    /\ rev \in Revisions
    /\ now \in Years
    /\ proc = Started(Undefined, <<"--stdio">>)
    /\ memo = NoMemo
    /\ Ready(Sessions)

\* server.setRequestHandler(ListToolsRequestSchema, ...)
ListTools(s) ==
    /\ Serving
    /\ pc[s] = "idle"
    /\ pc' = [pc EXCEPT ![s] = "done"]
    /\ req' = [req EXCEPT ![s] = [NoRequest EXCEPT !.method = "tools/list"]]
    /\ result' = [result EXCEPT ![s] = ListToolsResponse(rev)]
    /\ UNCHANGED <<rev, invoked, calls, settled, handled, now, proc, memo>>

\* The Call handler run on one request, up to the await.
CallToolWith(s, request) ==
    LET d == CallToolStart(rev, request)
    IN  /\ pc' = [pc EXCEPT ![s] = d.pc]
        /\ req' = [req EXCEPT ![s] = request]
        /\ invoked' = [invoked EXCEPT ![s] = d.invoked]
        /\ calls' = [calls EXCEPT ![s] = d.calls]
        /\ result' = [result EXCEPT ![s] = d.result]
        /\ handled' = [handled EXCEPT ![s] = HandledAtStart(rev, request)]
        /\ memo' = IF d.pc = "done" THEN Remember(request, Unsettled, d.result)
                   ELSE Overlap(s)

\* server.setRequestHandler(CallToolRequestSchema, ...), up to the await.
CallTool(s) ==
    /\ Serving
    /\ pc[s] = "idle"
    /\ \E toolName \in CallNames, arguments \in ArgSamples :
          CallToolWith(s, [method |-> "tools/call", name |-> toolName,
                           arguments |-> arguments])
    /\ UNCHANGED <<rev, settled, now, proc>>

\* The settled upstream call delivered through one slot shared by the
\* sessions: every suspended call is resumed with it.
UpstreamResolve_sharedSlot(s) ==
    /\ Serving
    /\ pc[s] = "awaiting"
    /\ \E p \in Payloads :
          LET waiting == {t \in Live : pc[t] = "awaiting"}
          IN  /\ settled' = [settled EXCEPT ![s] = Resolved(p)]
              /\ result' = [t \in Live |->
                               IF t \in waiting
                               THEN CallToolResume(rev, req[t], Resolved(p))
                               ELSE result[t]]
              /\ handled' = [t \in Live |->
                                IF t \in waiting
                                THEN HandledAtResume(rev, req[t], Resolved(p))
                                ELSE handled[t]]
              /\ pc' = [t \in Live |-> IF t \in waiting THEN "done" ELSE pc[t]]
              /\ memo' = Remember(req[s], Resolved(p), result'[s])
    /\ UNCHANGED <<rev, req, invoked, calls, now, proc>>

\* The upstream promise resolves: the handler returns its response.
UpstreamResolve(s) ==
    /\ Serving
    /\ pc[s] = "awaiting"
    /\ \E p \in Payloads :
          LET response == CallToolResume(rev, req[s], Resolved(p))
          IN  /\ settled' = [settled EXCEPT ![s] = Resolved(p)]
              /\ result' = [result EXCEPT ![s] = response]
              /\ handled' = [handled EXCEPT ![s] =
                                HandledAtResume(rev, req[s], Resolved(p))]
              /\ memo' = Remember(req[s], Resolved(p), response)
    /\ pc' = [pc EXCEPT ![s] = "done"]
    /\ UNCHANGED <<rev, req, invoked, calls, now, proc>>

\* The rejection left unhandled: the error response is built, and the
\* unhandledRejection handler ends the process.
UpstreamReject_exits(s) ==
    /\ Serving
    /\ pc[s] = "awaiting"
    /\ \E e \in Rejections :
          /\ settled' = [settled EXCEPT ![s] = Rejected(e)]
          /\ result' = [result EXCEPT ![s] = CallToolResume(rev, req[s], Rejected(e))]
    /\ pc' = [pc EXCEPT ![s] = "done"]
    /\ proc' = [proc EXCEPT !.status = "exited", !.code = 1]
    /\ UNCHANGED <<rev, req, invoked, calls, handled, now, memo>>

\* The rejection answered by issuing the upstream call again.
UpstreamReject_retries(s) ==
    /\ Serving
    /\ pc[s] = "awaiting"
    /\ Len(calls[s]) < 3
    /\ calls' = [calls EXCEPT ![s] = Append(@, @[1])]
    /\ UNCHANGED <<rev, pc, req, invoked, settled, result, handled, now, proc,
                   memo>>

\* The rejection swallowed: the handler's promise never settles.
UpstreamReject_hangs(s) ==
    /\ Serving
    /\ pc[s] = "awaiting"
    /\ \E e \in Rejections : settled' = [settled EXCEPT ![s] = Rejected(e)]
    /\ pc' = [pc EXCEPT ![s] = "hung"]
    /\ UNCHANGED <<rev, req, invoked, calls, result, handled, now, proc, memo>>

\* The upstream promise rejects: the error travels to the dispatcher's catch.
UpstreamReject(s) ==
    /\ Serving
    /\ pc[s] = "awaiting"
    /\ \E e \in Rejections :
          LET response == CallToolResume(rev, req[s], Rejected(e))
          IN  /\ settled' = [settled EXCEPT ![s] = Rejected(e)]
              /\ result' = [result EXCEPT ![s] = response]
              /\ handled' = [handled EXCEPT ![s] =
                                HandledAtResume(rev, req[s], Rejected(e))]
              /\ memo' = Remember(req[s], Rejected(e), response)
    /\ pc' = [pc EXCEPT ![s] = "done"]
    /\ UNCHANGED <<rev, req, invoked, calls, now, proc>>

\* The response handed over and the registry rebuilt from the current
\* declarations for the next request.
Respond_rebuilds(s) ==
    /\ Serving
    /\ pc[s] = "done"
    /\ pc' = [pc EXCEPT ![s] = "idle"]
    /\ req' = [req EXCEPT ![s] = NoRequest]
    /\ invoked' = [invoked EXCEPT ![s] = <<>>]
    /\ calls' = [calls EXCEPT ![s] = <<>>]
    /\ settled' = [settled EXCEPT ![s] = Unsettled]
    /\ result' = [result EXCEPT ![s] = NoResult]
    /\ handled' = [handled EXCEPT ![s] = NotInvoked]
    /\ memo' = Forget(s)
    /\ rev' = "r3"
    /\ UNCHANGED <<now, proc>>

\* The response is handed to the transport; the session takes the next
\* request.
Respond(s) ==
    /\ Serving
    /\ pc[s] = "done"
    /\ pc' = [pc EXCEPT ![s] = "idle"]
    /\ req' = [req EXCEPT ![s] = NoRequest]
    /\ invoked' = [invoked EXCEPT ![s] = <<>>]
    /\ calls' = [calls EXCEPT ![s] = <<>>]
    /\ settled' = [settled EXCEPT ![s] = Unsettled]
    /\ result' = [result EXCEPT ![s] = NoResult]
    /\ handled' = [handled EXCEPT ![s] = NotInvoked]
    /\ memo' = Forget(s)
    /\ UNCHANGED <<rev, now, proc>>

\* The year changes.  The clock is read only where a call starts (its
\* validation), so the change is taken between requests.
Tick ==
    /\ \A s \in Live : pc[s] \in {"idle", "closed"}
    /\ now + 1 \in Years
    /\ now' = now + 1
    /\ UNCHANGED <<rev, pc, req, invoked, calls, settled, result, handled,
                   proc, memo>>

Next ==
    \/ \E s \in Live :
          \/ ListTools(s)
          \/ CallTool(s)
          \/ UpstreamResolve(s)
          \/ UpstreamReject(s)
          \/ Respond(s)
    \/ Tick

Spec == Init /\ [][Next]_vars

\* ------------------------------------------------------------------------
\* Repeated calls against an upstream stub
\* ------------------------------------------------------------------------

Request(name, arguments) ==
    [method |-> "tools/call", name |-> name, arguments |-> arguments]

\* The calls the clients of the smaller specifications send: a valid by-id
\* call, one that fails validation, the first registry's only tool, a name
\* no registry has, a by-year call, a paginated call.
ProbeCalls ==
    {Request("get-region-by-id", [NoArgs EXCEPT !["id"] = Num(3)]),
     Request("get-region-by-id", [NoArgs EXCEPT !["id"] = Num(0)]),
     Request("get-region", NoArgs),
     Request("nonexistent-tool", NoArgs),
     Request("get-president-by-year", [NoArgs EXCEPT !["year"] = Num(2027)]),
     Request("get-city-paginated",
             [NoArgs EXCEPT !["page"] = Num(1), !["pageSize"] = Num(3)])}

\* What a deterministic upstream stub answers the observed call with.
Stubs ==
    {Resolved(Obj(<<Member("id", Num(3)), Member("name", Str("Andina"))>>)),
     Rejected(NewError("Not Found"))}

\* The Call handler run on one of the probe calls.
CallProbe(s) ==
    /\ Serving
    /\ pc[s] = "idle"
    /\ \E request \in ProbeCalls : CallToolWith(s, request)
    /\ UNCHANGED <<rev, settled, now, proc>>

\* process.on('uncaughtException' | 'unhandledRejection'): an error outside
\* the request path ends the process with exit code 1.
Fatal ==
    /\ Serving
    /\ proc' = [proc EXCEPT !.status = "exited", !.code = 1]
    /\ pc' = [s \in Live |-> "closed"]
    /\ req' = [s \in Live |-> NoRequest]
    /\ invoked' = [s \in Live |-> <<>>]
    /\ calls' = [s \in Live |-> <<>>]
    /\ settled' = [s \in Live |-> Unsettled]
    /\ result' = [s \in Live |-> NoResult]
    /\ handled' = [s \in Live |-> NotInvoked]
    /\ memo' = [memo EXCEPT !.overlapped = {}]
    /\ UNCHANGED <<rev, now>>

\* One client repeating calls against the stub.
InitRepeat ==
    /\ rev \in Revisions
    /\ now \in Years
    /\ proc = Started(Undefined, <<"--stdio">>)
    /\ memo \in {[NoMemo EXCEPT !.probe = p, !.stub = o] :
                    p \in ProbeCalls, o \in Stubs}
    /\ Ready(Sessions)

NextRepeat ==
    \/ \E s \in Live :
          \/ ListTools(s)
          \/ CallProbe(s)
          \/ UpstreamResolve(s)
          \/ UpstreamReject(s)
          \/ Respond(s)
    \/ Tick
    \/ Fatal

SpecRepeat == InitRepeat /\ [][NextRepeat]_vars

\* ------------------------------------------------------------------------
\* An upstream whose calls settle
\* ------------------------------------------------------------------------

\* The upstream call of a suspended request settles.
Settle(s) == UpstreamResolve(s) \/ UpstreamReject(s)

NextSettling ==
    \/ \E s \in Live :
          \/ ListTools(s)
          \/ CallProbe(s)
          \/ UpstreamResolve(s)
          \/ UpstreamReject(s)
          \/ Respond(s)
    \/ Tick

\* The server under an upstream whose calls eventually settle: a pending
\* promise that can settle does so (the event loop runs its continuation).
SpecSettling ==
    Init /\ [][NextSettling]_vars /\ \A s \in Sessions : WF_vars(Settle(s))

\* ------------------------------------------------------------------------
\* Two HTTP sessions on the shared server
\* ------------------------------------------------------------------------

\* The dropped connection taking every session of the adapter with it.
Drop_closesAll(s) ==
    /\ Serving
    /\ proc.adapters = <<"MCPStreamableHttpServer">>
    /\ pc[s] # "closed"
    /\ pc' = [t \in Live |-> "closed"]
    /\ req' = [t \in Live |-> NoRequest]
    /\ invoked' = [t \in Live |-> <<>>]
    /\ calls' = [t \in Live |-> <<>>]
    /\ settled' = [t \in Live |-> Unsettled]
    /\ result' = [t \in Live |-> NoResult]
    /\ handled' = [t \in Live |-> NotInvoked]
    /\ memo' = [memo EXCEPT !.overlapped = {}]
    /\ UNCHANGED <<rev, now, proc>>

\* The connection of session s is dropped, or found malformed and closed:
\* the session and its request in flight are abandoned.
Drop(s) ==
    /\ Serving
    /\ proc.adapters = <<"MCPStreamableHttpServer">>
    /\ pc[s] # "closed"
    /\ pc' = [pc EXCEPT ![s] = "closed"]
    /\ req' = [req EXCEPT ![s] = NoRequest]
    /\ invoked' = [invoked EXCEPT ![s] = <<>>]
    /\ calls' = [calls EXCEPT ![s] = <<>>]
    /\ settled' = [settled EXCEPT ![s] = Unsettled]
    /\ result' = [result EXCEPT ![s] = NoResult]
    /\ handled' = [handled EXCEPT ![s] = NotInvoked]
    /\ memo' = Forget(s)
    /\ UNCHANGED <<rev, now, proc>>

\* A client connects and negotiates a new session.
Connect(s) ==
    /\ Serving
    /\ proc.adapters = <<"MCPStreamableHttpServer">>
    /\ pc[s] = "closed"
    /\ pc' = [pc EXCEPT ![s] = "idle"]
    /\ UNCHANGED <<rev, req, invoked, calls, settled, result, handled, now,
                   proc, memo>>

InitPaired ==
    /\ rev \in Revisions
    /\ now \in Years
    /\ proc = Started(Undefined, <<>>)
    /\ memo = NoMemo
    /\ Ready(HttpSessions)

NextPaired ==
    \E s \in Live :
        \/ ListTools(s)
        \/ CallProbe(s)
        \/ UpstreamResolve(s)
        \/ UpstreamReject(s)
        \/ Respond(s)
        \/ Drop(s)
        \/ Connect(s)

SpecPaired == InitPaired /\ [][NextPaired]_vars

\* ------------------------------------------------------------------------
\* Start-up
\* ------------------------------------------------------------------------

\* main(): the transport is chosen, the server created, the adapter started.
Main ==
    /\ proc.status = "starting"
    /\ proc' = Started(proc.env, proc.argv)
    /\ LET sessions == SessionsOf(Adapter(TransportType(proc.env, proc.argv)))
       IN  /\ pc' = [s \in sessions |-> "idle"]
           /\ req' = [s \in sessions |-> NoRequest]
           /\ invoked' = [s \in sessions |-> <<>>]
           /\ calls' = [s \in sessions |-> <<>>]
           /\ settled' = [s \in sessions |-> Unsettled]
           /\ result' = [s \in sessions |-> NoResult]
           /\ handled' = [s \in sessions |-> NotInvoked]
    /\ UNCHANGED <<rev, now, memo>>

\* The failed start leaving the process with exit code 0.
StartFails_exitsClean ==
    /\ proc.status = "starting"
    /\ proc' = [proc EXCEPT !.status = "exited", !.code = 0]
    /\ UNCHANGED <<rev, pc, req, invoked, calls, settled, result, handled,
                   now, memo>>

\* The start fails: MCPStdioServer.start catches the failed connect and
\* calls process.exit(1); a rejection of createServer() or of the adapter's
\* start() rejects `await main()` at the top level, which ends the process
\* with exit code 1 as well.
StartFails ==
    /\ proc.status = "starting"
    /\ proc' = [proc EXCEPT !.status = "exited", !.code = 1]
    /\ UNCHANGED <<rev, pc, req, invoked, calls, settled, result, handled,
                   now, memo>>

InitStartup ==
    /\ rev \in Revisions
    /\ now \in Years
    /\ proc \in {Starting(env, argv) : env \in EnvValues, argv \in Argvs}
    /\ memo = NoMemo
    /\ Ready({})

NextStartup ==
    \/ Main
    \/ StartFails
    \/ Fatal
    \/ \E s \in Live :
          \/ ListTools(s)
          \/ Respond(s)

SpecStartup == InitStartup /\ [][NextStartup]_vars

\* ------------------------------------------------------------------------
\* Properties
\* ------------------------------------------------------------------------

\* Session s has answered a Call request.
CallServed(s) == pc[s] = "done" /\ req[s].method = "tools/call"

\* Session s is serving (or has answered) a Call request.
CallInFlight(s) == pc[s] \in {"awaiting", "done"} /\ req[s].method = "tools/call"

\* The request of s names a tool the registry has a handler for.
Registered(s) == req[s].name \in DOMAIN ALL_HANDLERS(rev)

\* The descriptor ALL_TOOLS lists under a name.
Descriptor(r, name) ==
    CHOOSE d \in {ALL_TOOLS(r)[i] : i \in 1..Len(ALL_TOOLS(r))} : d.name = name

\* The keys the declared input contract of the requested tool has.
DeclaredFields(s) ==
    {Descriptor(rev, req[s].name).properties[i] :
        i \in 1..Len(Descriptor(rev, req[s].name).properties)}

\* The violations of the requested tool's runtime schema by the request.
SchemaIssues(s) ==
    LET h == ALL_HANDLERS(rev)[req[s].name]
    IN  IF h.validate
        THEN ZodIssues(h.schema,
                       [k \in {h.input[i] : i \in 1..Len(h.input)} |->
                           req[s].arguments[k]])
        ELSE {}

\* A well-formed ToolResponse: a non-empty sequence of text items.
IsToolResponse(r) ==
    /\ r.shape = "envelope"
    /\ Len(r.content) >= 1
    /\ \A i \in 1..Len(r.content) : r.content[i].type = "text"

\* The error response with exactly this text.
IsErrorWithText(r, text) ==
    /\ r.shape = "envelope"
    /\ r.isError
    /\ r.content = <<TextItem(text)>>

\* An error response: error-flagged, one text item.
IsErrorResponse(r) ==
    /\ r.shape = "envelope"
    /\ r.isError
    /\ Len(r.content) = 1

\* Whether sub occurs in text.
Contains(text, sub) ==
    \E i \in 1..(Len(text) - Len(sub) + 1) :
        SubSeq(text, i, i + Len(sub) - 1) = sub

\* The serialization JSON.stringify must produce for each payload.
ExpectedText(p) ==
    CASE p = Obj(<<Member("id", Num(3)), Member("name", Str("Andina"))>>) ->
            "{\"id\":3,\"name\":\"Andina\"}"
      [] p = Str("ok") -> "\"ok\""
      [] p = Num(-7) -> "-7"
      [] OTHER -> "[{\"name\":\"say \\\"hi\\\"\"},null]"

\* The domain groups declared in the sources: descriptors and handlers.
DomainGroups ==
    {<<COUNTRY_TOOLS, COUNTRY_HANDLERS>>, <<REGION_TOOLS, REGION_HANDLERS>>,
     <<REGION_TOOLS_v1, REGION_HANDLERS_v1>>,
     <<DEPARTMENT_TOOLS, DEPARTMENT_HANDLERS>>,
     <<DEPARTMENT_TOOLS_v1, DEPARTMENT_HANDLERS_v1>>,
     <<CITY_TOOLS, CITY_HANDLERS>>, <<PRESIDENT_TOOLS, PRESIDENT_HANDLERS>>,
     <<TOURISTIC_ATTRACTION_TOOLS, TOURISTIC_ATTRACTION_HANDLERS>>,
     <<CATEGORY_NATURAL_AREA_TOOLS, CATEGORY_NATURAL_AREA_HANDLERS>>,
     <<NATURAL_AREA_TOOLS, NATURAL_AREA_HANDLERS>>, <<MAP_TOOLS, MAP_HANDLERS>>,
     <<AIRPORT_TOOLS, AIRPORT_HANDLERS>>,
     <<INDIGENOUS_RESERVATION_TOOLS, INDIGENOUS_RESERVATION_HANDLERS>>,
     <<CONSTITUTION_ARTICLE_TOOLS, CONSTITUTION_ARTICLE_HANDLERS>>,
     <<NATIVE_COMMUNITY_TOOLS, NATIVE_COMMUNITY_HANDLERS>>,
     <<HOLIDAY_TOOLS, HOLIDAY_HANDLERS>>, <<RADIO_TOOLS, RADIO_HANDLERS>>,
     <<INVASIVE_SPECIE_TOOLS, INVASIVE_SPECIE_HANDLERS>>,
     <<TYPICAL_DISH_TOOLS, TYPICAL_DISH_HANDLERS>>,
     <<TRADITIONAL_FAIR_AND_FESTIVAL_TOOLS,
       TRADITIONAL_FAIR_AND_FESTIVAL_HANDLERS>>}

\* The descriptor lists createServer merges, in the order it merges them.
MergedGroups(r) ==
    IF r = "r1" THEN <<REGION_TOOLS_v1>>
    ELSE <<COUNTRY_TOOLS, REGION_TOOLS,
           IF r = "r2" THEN DEPARTMENT_TOOLS_v1 ELSE DEPARTMENT_TOOLS,
           CITY_TOOLS, PRESIDENT_TOOLS, TOURISTIC_ATTRACTION_TOOLS,
           CATEGORY_NATURAL_AREA_TOOLS, NATURAL_AREA_TOOLS, MAP_TOOLS>>

\* No two descriptors of a list share a name.
UniqueNames(tools) ==
    \A i, j \in 1..Len(tools) : tools[i].name = tools[j].name => i = j

\* C1: every Call request, whatever the tool name, the arguments and the
\* upstream outcome, resolves to a response envelope whose content is a
\* non-empty sequence of text items.
C1_AlwaysToolResponse ==
    \A s \in Sessions : CallServed(s) => IsToolResponse(result[s])

\* C2: a Call whose tool name is not the name of a registered tool returns
\* isError = true with the single text "Error: Unknown tool: <name>", and
\* invokes no handler and no upstream operation.
C2_UnknownToolError ==
    \A s \in Sessions :
        (CallInFlight(s) /\ req[s].name \notin ToolNames(ALL_TOOLS(rev))) =>
            /\ pc[s] = "done"
            /\ IsErrorWithText(result[s], "Error: Unknown tool: " \o req[s].name)
            /\ invoked[s] = <<>>
            /\ calls[s] = <<>>

\* C3: a Call of a registered tool whose arguments pass the tool's schema
\* invokes the upstream operation, and when that resolves with payload p the
\* response is isError = false with exactly one text item, the JSON
\* serialization of p (get-region-by-id {id: 3} with {"id":3,"name":"Andina"}
\* gives that serialized object).
C3_SuccessReturnsSerializedPayload ==
    \A s \in Sessions :
        (CallInFlight(s) /\ Registered(s) /\ SchemaIssues(s) = {}) =>
            /\ Len(calls[s]) = 1
            /\ (pc[s] = "done" /\ settled[s].kind = "resolved") =>
                  /\ result[s].shape = "envelope"
                  /\ result[s].isError = FALSE
                  /\ result[s].content =
                        <<TextItem(ExpectedText(settled[s].payload))>>

C3_Witness ==
    \E s \in Sessions :
        /\ CallServed(s)
        /\ req[s].name = "get-region-by-id"
        /\ req[s].arguments["id"] = Num(3)
        /\ settled[s] = Resolved(Obj(<<Member("id", Num(3)),
                                       Member("name", Str("Andina"))>>))
        /\ result[s].isError = FALSE
        /\ result[s].content = <<TextItem("{\"id\":3,\"name\":\"Andina\"}")>>

\* C4: for every tool whose input contract has a numeric id field, a Call
\* with id < 1 (0, -1) returns isError = true with a validation message and
\* invokes no upstream operation.
C4_IdBelowOneRejected ==
    \A s \in Sessions :
        (/\ CallInFlight(s)
         /\ Registered(s)
         /\ "id" \in DeclaredFields(s)
         /\ req[s].arguments["id"].t = "number"
         /\ req[s].arguments["id"].n < 1) =>
            /\ pc[s] = "done"
            /\ IsErrorResponse(result[s])
            /\ Contains(result[s].content[1].text, "Invalid input")
            /\ calls[s] = <<>>

\* C5: for every paginated tool, a Call with page < 1 or pageSize < 1, or
\* with page or pageSize missing, returns isError = true and invokes no
\* upstream operation.
C5_BadPageRejected ==
    \A s \in Sessions :
        (/\ CallInFlight(s)
         /\ Registered(s)
         /\ "page" \in DeclaredFields(s)
         /\ \E f \in {"page", "pageSize"} :
               \/ req[s].arguments[f].t = "undefined"
               \/ req[s].arguments[f].t = "number" /\ req[s].arguments[f].n < 1) =>
            /\ pc[s] = "done"
            /\ IsErrorResponse(result[s])
            /\ calls[s] = <<>>

C5_Witness ==
    \E s \in Sessions :
        /\ CallServed(s)
        /\ req[s].name = "get-city-paginated"
        /\ req[s].arguments["page"] = Num(0)
        /\ req[s].arguments["pageSize"] = Num(2)
        /\ result[s].isError
        /\ calls[s] = <<>>

\* C6: a Call of a paginated tool with valid page and pageSize and optional
\* sortBy / sortDirection invokes the paged-list operation once with query
\* keys Page, PageSize, SortBy, SortDirection carrying the request's values
\* unchanged; sort fields the request lacks are forwarded as undefined.
C6_PagedQueryForwarded ==
    \A s \in Sessions :
        (CallInFlight(s) /\ Registered(s) /\ "page" \in DeclaredFields(s)) =>
            /\ (/\ req[s].arguments["page"].t = "number"
                /\ req[s].arguments["page"].n >= 1
                /\ req[s].arguments["pageSize"].t = "number"
                /\ req[s].arguments["pageSize"].n >= 1
                /\ req[s].arguments["sortBy"].t \in {"undefined", "string"}
                /\ req[s].arguments["sortDirection"] \in
                      {Undefined, Str("asc"), Str("desc")}) => Len(calls[s]) = 1
            /\ \A i \in 1..Len(calls[s]) :
                  /\ i = 1
                  /\ Contains(calls[s][i].op, "PagedList")
                  /\ calls[s][i].path = <<>>
                  /\ calls[s][i].query =
                        [Page |-> req[s].arguments["page"],
                         PageSize |-> req[s].arguments["pageSize"],
                         SortBy |-> req[s].arguments["sortBy"],
                         SortDirection |-> req[s].arguments["sortDirection"]]

C6_Witness ==
    \E s \in Sessions :
        /\ pc[s] = "awaiting"
        /\ req[s].name = "get-department-paginated"
        /\ req[s].arguments = [NoArgs EXCEPT !["page"] = Num(1), !["pageSize"] = Num(3)]
        /\ calls[s] =
              <<[op |-> "getApiV1DepartmentPagedList", path |-> <<>>,
                 query |-> [Page |-> Num(1), PageSize |-> Num(3),
                            SortBy |-> Undefined, SortDirection |-> Undefined]]>>

\* C7: a List request returns exactly the descriptors the merged domain
\* groups declare, and no two returned descriptors share a name.
C7_ListExactAndUnique ==
    \A s \in Sessions :
        (pc[s] = "done" /\ req[s].method = "tools/list") =>
            LET tools == result[s].tools
                groups == MergedGroups(rev)
                declared == UNION {{groups[g][i] : i \in 1..Len(groups[g])} :
                                      g \in 1..Len(groups)}
            IN  /\ result[s].shape = "tools"
                /\ {tools[i] : i \in 1..Len(tools)} = declared
                /\ Len(tools) = Cardinality(declared)
                /\ UniqueNames(tools)

C7_Witness ==
    \E s \in Sessions :
        /\ pc[s] = "done"
        /\ req[s].method = "tools/list"
        /\ rev = "r3"
        /\ Len(result[s].tools) = 38

\* C8: registry consistency: the names of the merged descriptor list are
\* exactly the keys of the merged handler map, each name once, for every
\* domain group and for the merged registry.
C8_RegistryConsistent ==
    /\ ToolNames(ALL_TOOLS(rev)) = DOMAIN ALL_HANDLERS(rev)
    /\ UniqueNames(ALL_TOOLS(rev))
    /\ \A g \in DomainGroups :
          /\ ToolNames(g[1]) = DOMAIN g[2]
          /\ UniqueNames(g[1])
    /\ \A s \in Sessions :
          (CallInFlight(s) /\ req[s].name \in ToolNames(ALL_TOOLS(rev))) =>
              invoked[s] = <<req[s].name>>

C8_Witness ==
    \E s \in Sessions :
        /\ CallServed(s)
        /\ rev = "r3"
        /\ req[s].name = "get-map-by-id"
        /\ invoked[s] = <<"get-map-by-id">>

\* C9: a List request returns the descriptors in registration order: the
\* groups in the order createServer merges them, declaration order within a
\* group; every List request returns this same order.
C9_ListInRegistrationOrder ==
    \A s \in Sessions :
        (pc[s] = "done" /\ req[s].method = "tools/list") =>
            LET tools == result[s].tools
                groups == MergedGroups(rev)
                \* the position <<group, index>> of a descriptor's declaration
                At(d) == CHOOSE p \in {<<g, i>> : g \in 1..Len(groups), i \in 1..Len(tools)} :
                             p[2] <= Len(groups[p[1]]) /\ groups[p[1]][p[2]] = d
            IN  /\ \A i, j \in 1..Len(tools) :
                      i < j => \/ At(tools[i])[1] < At(tools[j])[1]
                               \/ /\ At(tools[i])[1] = At(tools[j])[1]
                                  /\ At(tools[i])[2] < At(tools[j])[2]
                /\ tools[1].name =
                      (IF rev = "r1" THEN "get-region" ELSE "get-country-colombia")
                /\ tools[Len(tools)].name =
                      (IF rev = "r1" THEN "get-region" ELSE "get-map-by-id")

C9_Witness ==
    \E s \in Sessions :
        /\ pc[s] = "done"
        /\ req[s].method = "tools/list"
        /\ rev = "r2"
        /\ result[s].tools[2].name = "get-regions"
        /\ result[s].tools[5].name = "get-departments"
        /\ result[s].tools[7].name = "get-cities"

\* C10: when a Call's arguments fail the tool's runtime schema, the text of
\* the error response begins with "Invalid input" and embeds the per-field
\* violation report.
C10_InvalidInputText ==
    \A s \in Sessions :
        (CallServed(s) /\ Registered(s) /\ SchemaIssues(s) # {}) =>
            /\ IsErrorResponse(result[s])
            /\ StartsWith(result[s].content[1].text, "Invalid input")
            /\ \A i \in SchemaIssues(s) :
                  Contains(result[s].content[1].text, i.code)


\* The fields of the request that its tool's runtime schema rejects.
ViolatedFields(s) == {i.path : i \in SchemaIssues(s)}

\* C11: when several fields of a Call's arguments violate the schema at
\* once, the error delivered to the caller enumerates every violated field:
\* the response is an error whose text names each of them.
C11_EveryViolatedFieldReported ==
    \A s \in Live :
        (CallServed(s) /\ Registered(s) /\ Cardinality(ViolatedFields(s)) >= 2) =>
            /\ IsErrorResponse(result[s])
            /\ \A f \in ViolatedFields(s) : Contains(result[s].content[1].text, f)

\* The context string the requested tool's handler gives executeApiCall.
ApiContext(s) == Render(ALL_HANDLERS(rev)[req[s].name].apiCtx, req[s].arguments)

\* The upstream operation of the request of s rejected with an Error.
UpstreamFailed(s) ==
    /\ CallServed(s)
    /\ Registered(s)
    /\ settled[s].kind = "rejected"
    /\ settled[s].error.isError

\* C12 (as stated): when the upstream operation of a validated Call rejects
\* with an error whose message is m, the Call returns isError = true and the
\* response text is "<context>: m".
C12_UpstreamErrorText ==
    \A s \in Live :
        UpstreamFailed(s) =>
            IsErrorWithText(result[s],
                            ApiContext(s) \o ": " \o settled[s].error.message)

\* C12 (amended): when the upstream operation of a validated Call rejects
\* with an error whose message is m, the Call returns isError = true and the
\* single response text is "Error: <context> failed: m".
C12_UpstreamErrorTextPrefixed ==
    \A s \in Live :
        UpstreamFailed(s) =>
            IsErrorWithText(result[s],
                            "Error: " \o ApiContext(s) \o " failed: "
                                \o settled[s].error.message)

C12_Witness ==
    \E s \in Live :
        /\ UpstreamFailed(s)
        /\ req[s].name = "get-region-by-id"
        /\ req[s].arguments["id"] = Num(3)
        /\ settled[s].error = NewError("Not Found")
        /\ result[s].isError
        /\ result[s].content =
              <<TextItem("Error: Get region by ID: 3 failed: Not Found")>>

C14_ValidationBeforeUpstream ==
    \A s \in Live :
        (CallInFlight(s) /\ Registered(s)
            /\ ALL_HANDLERS(rev)[req[s].name].validate) =>
            /\ calls[s] # <<>> => SchemaIssues(s) = {}
            /\ SchemaIssues(s) # {} => (pc[s] = "done" /\ calls[s] = <<>>)

C14_Witness ==
    \E s \in Live :
        /\ pc[s] = "awaiting"
        /\ req[s].name = "get-city-by-id"
        /\ req[s].arguments["id"] = Num(1)
        /\ calls[s] = <<[op |-> "getApiV1CityById", path |-> [id |-> Num(1)],
                         query |-> <<>>]>>

\* C15: no automatic retry: a Call request invokes its upstream operation at
\* most once; when that invocation has failed the request is answered with
\* the error and the one invocation is all there has been.
C15_NoRetry ==
    \A s \in Live :
        /\ Len(calls[s]) <= 1
        /\ settled[s].kind = "rejected" =>
              /\ pc[s] = "done"
              /\ Len(calls[s]) = 1
              /\ IsErrorResponse(result[s])

C15_Witness ==
    \E s \in Live :
        /\ pc[s] = "done"
        /\ req[s].name = "get-city-paginated"
        /\ settled[s] = Rejected(NewError("Not Found"))
        /\ Len(calls[s]) = 1
        /\ result[s].content =
              <<TextItem("Error: Get paginated cities failed: Not Found")>>

\* Session s has answered a call that is an instance of the observed one,
\* which had been answered before.
AnsweredAgain(s) ==
    /\ memo.recorded
    /\ CallServed(s)
    /\ Observed(req[s], settled[s])

\* C16: request-level failures are never fatal: when a Call has ended in a
\* validation error, an unknown-tool error or an upstream failure the
\* process is still running, and a later Call or List request is answered
\* exactly as it was answered before any call had failed.
C16_FailuresNotFatal ==
    \A s \in Live :
        /\ (CallServed(s) /\ IsFailure(result[s])) =>
              (proc.status = "serving" /\ proc.code = 0)
        /\ (AnsweredAgain(s) /\ ~memo.failedBefore /\ memo.failedSince
                /\ memo.year = now) =>
              result[s] = memo.result
        /\ (memo.failedSince /\ pc[s] = "done" /\ req[s].method = "tools/list") =>
              (result[s].shape = "tools" /\ result[s].tools = ALL_TOOLS(rev))

C16_Witness ==
    \E s \in Live :
        /\ AnsweredAgain(s)
        /\ ~memo.failedBefore
        /\ memo.failedSince
        /\ req[s].name = "get-region-by-id"
        /\ settled[s].kind = "resolved"
        /\ ~result[s].isError
        /\ result[s] = memo.result
        /\ proc.status = "serving"

\* The tools whose runtime schema reads the clock (max: the current year).
ByYearTools ==
    {"get-president-by-year", "get-holiday-by-year",
     "get-holiday-by-year-and-month"}

\* C17 (as stated): idempotence: with a deterministic upstream stub the same
\* Call issued twice, anywhere in a request sequence, gets two identical
\* responses; the response depends only on the tool name, the arguments and
\* the upstream result.
C17_SameCallSameResponse ==
    \A s \in Live : AnsweredAgain(s) => result[s] = memo.result

\* C17 (amended): the same Call issued twice gets two identical responses
\* when the tool is not a by-year tool, or when both calls are made in the
\* same calendar year: the response depends on the tool name, the arguments,
\* the upstream result and, for the by-year tools, the current year.
C17_SameCallSameResponseWithinYear ==
    \A s \in Live :
        (AnsweredAgain(s) /\ (memo.year = now \/ req[s].name \notin ByYearTools)) =>
            result[s] = memo.result

C17_Witness ==
    \E s \in Live :
        /\ AnsweredAgain(s)
        /\ req[s].name = "get-president-by-year"
        /\ memo.year = 2027
        /\ now = 2027
        /\ settled[s].kind = "resolved"
        /\ ~result[s].isError
        /\ result[s] = memo.result

\* The upstream invocation the handler of the request of s makes from the
\* arguments of that request.
OwnUpstreamCall(s) ==
    UpstreamCall(ALL_HANDLERS(rev)[req[s].name], req[s].arguments)

\* C18: two distinct valid Calls in flight at the same time on the shared
\* dispatcher, each suspended at its upstream call: each has invoked the
\* upstream operation with its own arguments and each is answered from its
\* own upstream result (the serialized payload, or the error of its own
\* context), in whatever order the two upstream calls settle.
C18_NoCrossTalk ==
    \A s \in memo.overlapped :
        /\ CallInFlight(s) /\ Registered(s) /\ SchemaIssues(s) = {}
        /\ calls[s] = <<OwnUpstreamCall(s)>>
        /\ pc[s] = "done" =>
              /\ settled[s].kind # "none"
              /\ settled[s].kind = "resolved" =>
                    /\ ~result[s].isError
                    /\ result[s].content =
                          <<TextItem(ExpectedText(settled[s].payload))>>
              /\ settled[s].kind = "rejected" =>
                    IsErrorWithText(result[s],
                        "Error: " \o ApiContext(s) \o " failed: " \o
                        (IF settled[s].error.isError
                         THEN settled[s].error.message ELSE settled[s].error.str))

C18_Witness ==
    /\ memo.overlapped = {"s1", "s2"}
    /\ pc = [s \in HttpSessions |-> "done"]
    /\ req["s1"].name = "get-region-by-id"
    /\ req["s2"].name = "get-city-paginated"
    /\ settled["s1"] = Resolved(Str("ok"))
    /\ settled["s2"] = Resolved(Num(-7))
    /\ result["s1"].content = <<TextItem("\"ok\"")>>
    /\ result["s2"].content = <<TextItem("-7")>>

StdioFlag == Includes(proc.argv, "--stdio")

\* C20 (as stated): started with the --stdio flag the process serves over
\* the STDIO adapter, started without it over the Streamable HTTP adapter;
\* exactly one adapter is started, on one shared server instance.
C20_FlagSelectsTransport ==
    proc.status = "serving" =>
        /\ proc.adapters =
              <<IF StdioFlag THEN "MCPStdioServer" ELSE "MCPStreamableHttpServer">>
        /\ proc.servers = 1

\* C20 (amended): with MCP_TRANSPORT unset or empty the --stdio flag selects
\* the STDIO adapter and its absence the Streamable HTTP adapter; with
\* MCP_TRANSPORT set, "sse" selects the Streamable HTTP adapter and any
\* other value the STDIO adapter, whatever the flag; exactly one adapter is
\* started, on one shared server instance.
C20_EnvThenFlagSelectsTransport ==
    proc.status = "serving" =>
        /\ proc.adapters =
              <<IF proc.env \in {Undefined, Str("")}
                THEN (IF StdioFlag THEN "MCPStdioServer"
                      ELSE "MCPStreamableHttpServer")
                ELSE (IF proc.env = Str("sse") THEN "MCPStreamableHttpServer"
                      ELSE "MCPStdioServer")>>
        /\ proc.servers = 1
        /\ Live = (IF proc.adapters = <<"MCPStdioServer">>
                   THEN Sessions ELSE HttpSessions)

C20_Witness ==
    /\ proc.status = "serving"
    /\ proc.env = Str("sse")
    /\ StdioFlag
    /\ proc.adapters = <<"MCPStreamableHttpServer">>
    /\ \E s \in Live : pc[s] = "done" /\ req[s].method = "tools/list"

\* ------------------------------------------------------------------------
\* Process-fatal failures
\* ------------------------------------------------------------------------

\* The process has ended.
Exited == proc.status = "exited"

\* C21: a failed start (connecting the pipe transport included), an uncaught
\* exception and an unhandled rejection each end the process with exit code
\* 1, and no protocol response is produced for them: no session holds a
\* response or a request once the process has ended.
C21_FatalExitsWithOne ==
    Exited =>
        /\ proc.code = 1
        /\ \A s \in Live :
              /\ pc[s] = "closed"
              /\ result[s] = NoResult
              /\ req[s] = NoRequest

\* The pipe adapter was chosen and its start failed.
C21_Witness ==
    /\ Exited
    /\ proc.code = 1
    /\ proc.adapters = <<>>
    /\ Adapter(TransportType(proc.env, proc.argv)) = "MCPStdioServer"

\* ------------------------------------------------------------------------
\* The declared input contract
\* ------------------------------------------------------------------------

\* The JSON-Schema a descriptor declares under a key of
\* inputSchema.properties: its type and, for sortDirection, its enum.
DeclaredProperty(key) ==
    CASE key \in {"id", "page", "pageSize", "year", "month", "chapterNumber"} ->
            [type |-> "number", enum |-> {}]
      [] key = "sortDirection" -> [type |-> "string", enum |-> {"asc", "desc"}]
      [] OTHER -> [type |-> "string", enum |-> {}]

\* JSON-Schema validation of the arguments against a descriptor's
\* inputSchema { type: 'object', properties }: an argument that is present
\* must have the declared type and be one of the declared enum values.  The
\* declarations carry no `required` keyword at the schema's top level (the
\* list sits inside `properties`) and no `minimum`.
JsonSchemaAccepts(tool, arguments) ==
    \A i \in 1..Len(tool.properties) :
        LET key == tool.properties[i]
        IN  (key \in DOMAIN arguments /\ arguments[key] # Undefined) =>
                /\ arguments[key].t = DeclaredProperty(key).type
                /\ DeclaredProperty(key).enum # {} =>
                      arguments[key].s \in DeclaredProperty(key).enum

\* C22: for every registered tool and every argument mapping, the declared
\* inputSchema accepts the arguments if and only if the runtime schema the
\* handler enforces accepts them.
C22_DeclaredMatchesRuntime ==
    \A s \in Sessions :
        (CallInFlight(s) /\ Registered(s)) =>
            (JsonSchemaAccepts(Descriptor(rev, req[s].name), req[s].arguments)
                <=> SchemaIssues(s) = {})

\* ------------------------------------------------------------------------
\* Progress
\* ------------------------------------------------------------------------

\* C23: every Call request eventually receives exactly one response provided
\* its upstream call settles: a suspended Call is eventually answered, the
\* answer does not change until it is handed over, and a Call that made no
\* upstream call (unknown tool, validation failure) is answered in the step
\* that received it, without waiting.
C23_EveryCallAnswered ==
    /\ \A s \in Sessions :
          (pc[s] = "awaiting") ~> (pc[s] = "done" /\ result[s] # NoResult)
    /\ [](\A s \in Sessions :
            (CallInFlight(s) /\ calls[s] = <<>>) =>
                (pc[s] = "done" /\ result[s] # NoResult))
    /\ [][\A s \in Sessions :
            (pc[s] = "done" /\ pc'[s] = "done") => result'[s] = result[s]]_vars

\* A Call suspended on its upstream call has been answered after a rejection.
C23_Witness ==
    \E s \in Sessions :
        /\ CallServed(s)
        /\ Len(calls[s]) = 1
        /\ settled[s].kind = "rejected"
        /\ IsErrorResponse(result[s])

\* ------------------------------------------------------------------------
\* The registry during dispatch
\* ------------------------------------------------------------------------

\* Session s has answered a List request.
ListServed(s) == pc[s] = "done" /\ req[s].method = "tools/list"

\* C24: the registry is read-only during dispatch: no step of a List or Call
\* request, successful or failing, changes the descriptor list or the
\* handler map, and every List response carries the descriptor list the
\* registry had before the step.
C24_RegistryReadOnly ==
    [][/\ ALL_TOOLS(rev') = ALL_TOOLS(rev)
       /\ DOMAIN ALL_HANDLERS(rev') = DOMAIN ALL_HANDLERS(rev)
       /\ \A name \in DOMAIN ALL_HANDLERS(rev) :
             ALL_HANDLERS(rev')[name] = ALL_HANDLERS(rev)[name]
       /\ \A s \in DOMAIN pc' :
             (pc'[s] = "done" /\ req'[s].method = "tools/list") =>
                 result'[s].tools = ALL_TOOLS(rev)]_vars

\* A List request answered after the observed call and a later failed call.
C24_Witness ==
    /\ memo.recorded
    /\ memo.failedSince
    /\ \E s \in Live : ListServed(s) /\ result[s].tools = ALL_TOOLS(rev)

\* C25: when the tool name is registered the dispatcher invokes that tool's
\* handler, once, with the request it received, and a response the handler
\* returns is the dispatcher's response, unchanged.
C25_HandlerResponseUnchanged ==
    \A s \in Sessions :
        (CallInFlight(s) /\ Registered(s)) =>
            /\ invoked[s] = <<req[s].name>>
            /\ handled[s].kind = "return" =>
                  /\ pc[s] = "done"
                  /\ result[s] =
                        HandlerResume(ALL_HANDLERS(rev)[req[s].name], req[s],
                                      settled[s]).result

\* A registered tool's handler has returned a response.
C25_Witness ==
    \E s \in Sessions :
        /\ CallServed(s)
        /\ req[s].name = "get-region-by-id"
        /\ invoked[s] = <<"get-region-by-id">>
        /\ handled[s].kind = "return"
        /\ result[s] = createToolResponse(settled[s].payload, FALSE)

\* ------------------------------------------------------------------------
\* Field validators
\* ------------------------------------------------------------------------

\* A JavaScript number that is an integer.
IsInteger(v) == v.t = "number" /\ v.s = ""

\* The schema of the requested tool's handler constrains a field `id`.
ByIdTool(s) ==
    LET h == ALL_HANDLERS(rev)[req[s].name]
    IN  h.validate /\ \E i \in 1..Len(h.schema) : h.schema[i].key = "id"

\* C26: the id validator accepts only positive integers: a Call to a by-id
\* tool whose id is a number but not an integer is rejected with a
\* validation error and makes no upstream call, like id < 1.
C26_FractionalIdRejected ==
    \A s \in Sessions :
        (/\ CallInFlight(s)
         /\ Registered(s)
         /\ ByIdTool(s)
         /\ req[s].arguments["id"].t = "number"
         /\ ~IsInteger(req[s].arguments["id"])) =>
            /\ pc[s] = "done"
            /\ IsErrorResponse(result[s])
            /\ calls[s] = <<>>

\* The requested tool declares sort options.
SortTool(s) == {"sortBy", "sortDirection"} \subseteq DeclaredFields(s)

\* The sort fields the request of s omits.
OmittedSort(s) ==
    {f \in {"sortBy", "sortDirection"} : req[s].arguments[f] = Undefined}

\* The properties of the upstream query the handler fills from variable f.
QueryKeys(s, f) ==
    LET q == ALL_HANDLERS(rev)[req[s].name].query
    IN  {q[i].key : i \in {j \in 1..Len(q) : q[j].var = f}}

\* C27: for every tool accepting sort options, a Call whose sortDirection is
\* outside {"asc", "desc"} returns isError = true with no upstream call; a
\* Call omitting sortBy and/or sortDirection, its other fields valid, passes
\* validation and forwards the omitted fields as undefined.
C27_SortFieldsOptional ==
    \A s \in Sessions :
        (CallInFlight(s) /\ Registered(s) /\ SortTool(s)) =>
            /\ req[s].arguments["sortDirection"]
                  \notin {Undefined, Str("asc"), Str("desc")} =>
                  /\ pc[s] = "done"
                  /\ IsErrorResponse(result[s])
                  /\ calls[s] = <<>>
            /\ (/\ OmittedSort(s) # {}
                /\ \A i \in SchemaIssues(s) : i.path \in OmittedSort(s)) =>
                  /\ SchemaIssues(s) = {}
                  /\ Len(calls[s]) = 1
                  /\ \A f \in OmittedSort(s) :
                        /\ QueryKeys(s, f) # {}
                        /\ \A k \in QueryKeys(s, f) :
                              calls[s][1].query[k] = Undefined

\* get-maps called without sortBy: validation passed and the upstream query
\* carries sortBy undefined.
C27_Witness ==
    \E s \in Sessions :
        /\ CallInFlight(s)
        /\ req[s].name = "get-maps"
        /\ req[s].arguments["sortBy"] = Undefined
        /\ req[s].arguments["sortDirection"] = Str("desc")
        /\ Len(calls[s]) = 1
        /\ calls[s][1].query =
              [sortBy |-> Undefined, sortDirection |-> Str("desc")]

\* ------------------------------------------------------------------------
\* The declared handlers behind the dispatcher
\* ------------------------------------------------------------------------

\* The handlers of the declaration modules, by tool name.  The sources hold
\* more modules than their createServer merges; a name is taken with the
\* handler of the module that declares it (of the department module, the
\* current one).
DeclaredHandlers ==
    LET groups == DomainGroups \ {<<DEPARTMENT_TOOLS_v1, DEPARTMENT_HANDLERS_v1>>}
    IN  [name \in UNION {DOMAIN g[2] : g \in groups} |->
            (CHOOSE g \in groups : name \in DOMAIN g[2])[2][name]]

\* `return await handler(request)` in the dispatcher's try / catch, for a
\* declared handler, up to the handler's await.
CallDeclared(s) ==
    /\ Serving
    /\ pc[s] = "idle"
    /\ \E toolName \in DOMAIN DeclaredHandlers, arguments \in ArgSamples :
          LET request == Request(toolName, arguments)
              h == HandlerStart(DeclaredHandlers[toolName], request)
          IN  /\ req' = [req EXCEPT ![s] = request]
              /\ invoked' = [invoked EXCEPT ![s] = <<toolName>>]
              /\ calls' = [calls EXCEPT ![s] = h.calls]
              /\ pc' = [pc EXCEPT ![s] =
                           IF h.kind = "throw" THEN "done" ELSE "awaiting"]
              /\ result' = [result EXCEPT ![s] =
                               IF h.kind = "throw" THEN CatchResponse(h.error)
                               ELSE NoResult]
              /\ handled' = [handled EXCEPT ![s] =
                                IF h.kind = "throw"
                                THEN [kind |-> "throw", error |-> h.error]
                                ELSE [kind |-> "pending", error |-> NewError("")]]
    /\ UNCHANGED <<rev, settled, now, proc, memo>>

\* The upstream call of a declared handler settles: the handler returns its
\* response or throws into the dispatcher's catch.
SettleDeclared(s) ==
    /\ Serving
    /\ pc[s] = "awaiting"
    /\ \E outcome \in {Resolved(p) : p \in Payloads}
                        \cup {Rejected(e) : e \in Rejections} :
          LET h == HandlerResume(DeclaredHandlers[req[s].name], req[s], outcome)
          IN  /\ settled' = [settled EXCEPT ![s] = outcome]
              /\ result' = [result EXCEPT ![s] =
                               IF h.kind = "throw" THEN CatchResponse(h.error)
                               ELSE h.result]
              /\ handled' = [handled EXCEPT ![s] =
                                [kind |-> h.kind, error |-> h.error]]
    /\ pc' = [pc EXCEPT ![s] = "done"]
    /\ UNCHANGED <<rev, req, invoked, calls, now, proc, memo>>

NextDeclared ==
    \/ \E s \in Live :
          \/ CallDeclared(s)
          \/ SettleDeclared(s)
          \/ Respond(s)
    \/ Tick

SpecDeclared == Init /\ [][NextDeclared]_vars

\* ------------------------------------------------------------------------
\* Constitution articles by chapter number
\* ------------------------------------------------------------------------

\* C28: a Call to get-constitution-article-by-chapter-number whose
\* chapterNumber is a number >= 1 passes validation, invokes the upstream
\* by-chapter-number operation once with path parameter chapternumber =
\* chapterNumber, and returns isError = false with the serialized payload
\* when upstream succeeds.
C28_ChapterNumberServed ==
    \A s \in Sessions :
        (/\ CallInFlight(s)
         /\ req[s].name = "get-constitution-article-by-chapter-number"
         /\ invoked[s] = <<req[s].name>>
         /\ req[s].arguments["chapterNumber"].t = "number"
         /\ req[s].arguments["chapterNumber"].n >= 1) =>
            /\ calls[s] =
                  <<[op |-> "getApiV1ConstitutionArticleByChapterNumberByChapternumber",
                     path |-> [chapternumber |-> req[s].arguments["chapterNumber"]],
                     query |-> <<>>]>>
            /\ settled[s].kind = "resolved" =>
                  result[s] = createToolResponse(settled[s].payload, FALSE)

\* ------------------------------------------------------------------------
\* Year and month bounds
\* ------------------------------------------------------------------------

\* The first year a by-year tool accepts.
FirstYear(name) == IF name = "get-president-by-year" THEN 1900 ELSE 1819

\* The year (and month) of the request of s are within the tool's bounds.
YearInBounds(s) ==
    LET year == req[s].arguments["year"]
        month == req[s].arguments["month"]
    IN  /\ IsInteger(year)
        /\ FirstYear(req[s].name) <= year.n
        /\ year.n <= CurrentYear
        /\ req[s].name = "get-holiday-by-year-and-month" =>
              (IsInteger(month) /\ 1 <= month.n /\ month.n <= 12)

\* C29: get-holiday-by-year, get-holiday-by-year-and-month and
\* get-president-by-year reach upstream only when year is an integer from
\* 1819 (president: 1900) to the current calendar year, and month an integer
\* from 1 to 12; any other value yields isError = true with no upstream
\* call.
C29_YearMonthBounds ==
    \A s \in Sessions :
        (/\ CallInFlight(s)
         /\ req[s].name \in ByYearTools
         /\ invoked[s] = <<req[s].name>>) =>
            /\ calls[s] # <<>> => YearInBounds(s)
            /\ ~YearInBounds(s) =>
                  /\ pc[s] = "done"
                  /\ IsErrorResponse(result[s])
                  /\ calls[s] = <<>>

\* A December holiday call of the current year has reached upstream.
C29_Witness ==
    \E s \in Sessions :
        /\ CallInFlight(s)
        /\ req[s].name = "get-holiday-by-year-and-month"
        /\ req[s].arguments["year"] = Num(CurrentYear)
        /\ req[s].arguments["month"] = Num(12)
        /\ calls[s] =
              <<[op |-> "getApiV1HolidayYearByYearMonthByMonth",
                 path |-> [year |-> Num(CurrentYear), month |-> Num(12)],
                 query |-> <<>>]>>

\* ------------------------------------------------------------------------
\* Transport precedence
\* ------------------------------------------------------------------------

\* MCP_TRANSPORT is set to a non-empty value.
EnvSet == proc.env.t = "string" /\ proc.env.s # ""

\* C30: a non-empty MCP_TRANSPORT overrides the --stdio flag; the HTTP
\* adapter is started if and only if the resolved transport type is "sse"
\* (MCP_TRANSPORT = "sse", or MCP_TRANSPORT unset or empty and no --stdio
\* flag); every other resolved value, an unrecognised MCP_TRANSPORT
\* included, starts the pipe adapter.
C30_TransportPrecedence ==
    proc.status = "serving" =>
        /\ EnvSet => proc.transportType = proc.env.s
        /\ ~EnvSet =>
              proc.transportType = (IF StdioFlag THEN "stdio" ELSE "sse")
        /\ proc.adapters = <<"MCPStreamableHttpServer">> <=>
              (\/ proc.env = Str("sse")
               \/ (~EnvSet /\ ~StdioFlag))
        /\ proc.transportType # "sse" => proc.adapters = <<"MCPStdioServer">>

\* An unrecognised MCP_TRANSPORT value has started the pipe adapter.
C30_Witness ==
    /\ proc.status = "serving"
    /\ proc.env = Str("http")
    /\ ~StdioFlag
    /\ proc.transportType = "http"
    /\ proc.adapters = <<"MCPStdioServer">>
=============================================================================
